---- MODULE Spec2Model ----
(***************************************************************************)
(* Lifecycle controller of the kind_cluster resource                       *)
(* (ClusterResource.Create / Read / Update / Delete, readClusterState),    *)
(* run against a provisioning engine, the on-disk kubeconfig files and the *)
(* host engine's persisted resource state.                                 *)
(*                                                                         *)
(* One handler invocation is a sequence of steps; a step ends at every     *)
(* call into the provisioning engine or the file system, whose outcome     *)
(* (success or error) is chosen by the environment.                        *)
(*                                                                         *)
(* The kubeconfig files are given by the environment: the model starts     *)
(* them with any content and changes them only where the controller       *)
(* writes them (clientcmd.WriteToFile in Delete).  What the provisioning   *)
(* engine itself writes to them is not part of this source.                *)
(***************************************************************************)
EXTENDS Integers, Sequences, FiniteSets, TLC

(***************************************************************************)
(* Program constants                                                       *)
(***************************************************************************)
\* part_003:45  maxRetries = 2
maxRetries == 2

\* part_003:43  defaultNodeImage
defaultNodeImage ==
    "kindest/node:v1.34.0@sha256:7416a61b42b1662ca6ca89f02028ac133a309a2a30ba309614e8ec94d976dc5a"

\* part_003:58  errDeleteTimeout
errDeleteTimeout == "delete operation timed out after 5m0s"

\* A Go int has 64 bits. It is written here as hi * 2^31 + lo with
\* 0 <= lo < 2^31, so that values on both sides of the int32 boundary are
\* exact.
GoInt(hi, lo) == [hi |-> hi, lo |-> lo]
IntLess(a, b) == a.hi < b.hi \/ (a.hi = b.hi /\ a.lo < b.lo)

\* math.MinInt32 / math.MaxInt32, the range of a port (part_006:226)
MinInt32 == GoInt(-1, 0)
MaxInt32 == GoInt(0, 2147483647)

(***************************************************************************)
(* The small sets the inputs are drawn from                                *)
(***************************************************************************)
\* the resource instance the handlers run for, named by its cluster name
Resources == {"a"}

\* a node_image the user may give; "" is "not given"
UserImage == "kindest/node:v1.29.7"
PlanImages == {"", UserImage}

\* a kubeconfig_path the user may give; "" is "not given"
CustomPath == "/custom/config"
PlanPaths == {"", CustomPath}

\* clientcmd.RecommendedHomeFile
defaultKubeconfigPath == "~/.kube/config"

\* os.Getwd() when it succeeds
Cwd == "/work"

\* the kind_config list of a plan: no block, or one block with one node
\* with one extra_port_mappings block, whose host_port is in or out of the
\* int32 range
NullList == <<>>
PlanKindConfigs ==
    {NullList, <<[host_port |-> GoInt(0, 8080)]>>, <<[host_port |-> GoInt(1, 0)]>>}

\* what provider.KubeConfig can return: two well-formed documents and one
\* that clientcmd.RESTConfigFromKubeConfig rejects
GoodKubeconfigs == {"kc1", "kc2"}
BadKubeconfig == "not-yaml"
Kubeconfigs == GoodKubeconfigs \cup {BadKubeconfig}

\* the marker of "no error"
Nil == "nil"

\* the absence of a persisted state record
NoRecord == [absent |-> TRUE]

(***************************************************************************)
(* Pure helpers of the controller                                          *)
(***************************************************************************)
\* EffectiveImage without the default: the image is used as given
EffectiveImageNoDefault(planImage) == planImage

\* part_003:107-113  the node image Create uses
EffectiveImage(planImage) ==
    IF planImage = "" THEN defaultNodeImage ELSE planImage

\* part_003:182  fmt.Sprintf("%s-%s", name, nodeImage)
ResourceID(name, nodeImage) == name \o "-" \o nodeImage

\* part_003:357  contextName := "kind-" + name
ContextName(name) == "kind-" \o name

\* ExportPath without the cluster name
ExportPathNoName(name) == Cwd \o "/config"

\* part_003:427  fmt.Sprintf("%s%s%s-config", currentPath, sep, name)
ExportPath(name) == Cwd \o "/" \o name \o "-config"

\* a range check that misses the lower boundary
PortOutOfRangeAboveOnly(port) ==
    port # GoInt(0, 0) /\ IntLess(MaxInt32, port)

\* part_006:224-231 reached through utils.go:155-184 and part_006:43-47,
\* 115-121: the only error of parseKindConfigFromFramework is a port
\* outside the int32 range
PortOutOfRange(port) ==
    port # GoInt(0, 0) /\ (IntLess(port, MinInt32) \/ IntLess(MaxInt32, port))

ParseKindConfigFails(kindConfig) ==
    Len(kindConfig) > 0 /\ PortOutOfRange(kindConfig[1].host_port)

\* part_003:118-146  the create options handed to provider.Create
CreateOptions(plan, nodeImage) ==
    [kubeconfigPath |-> plan.kubeconfig_path,
     withConfig     |-> Len(plan.kind_config) > 0,
     nodeImage      |-> nodeImage,
     waitForReady   |-> plan.wait_for_ready]

\* clientcmd.RESTConfigFromKubeConfig, part_003:443-452: the coordinates of
\* a well-formed document are functions of that document
ParseFails(kconfig) == kconfig \notin GoodKubeconfigs
CertData(kconfig) == "cert:" \o kconfig
KeyData(kconfig) == "key:" \o kconfig
CAData(kconfig) == "ca:" \o kconfig
\* Host taken from the kubeconfig of an earlier fetch
HostStale(kconfig) == "https://kc1"
Host(kconfig) == "https://" \o kconfig

(***************************************************************************)
(* Kubeconfig documents (clientcmdapi.Config)                              *)
(***************************************************************************)
\* entry keys: the managed cluster's context name and one foreign key
OtherContext == "minikube"
ContextKeys == {ContextName(n) : n \in Resources} \cup {OtherContext}

KubeconfigDocs ==
    [Contexts : SUBSET ContextKeys, AuthInfos : SUBSET ContextKeys,
     Clusters : SUBSET ContextKeys, CurrentContext : ContextKeys \cup {""}]

\* a cleanup that does not look for the context before it rewrites
ContextExistsOrNot(config, contextName) == TRUE

\* part_003:367  _, exists := config.Contexts[contextName]
ContextExists(config, contextName) == contextName \in config.Contexts

\* RemoveEntries dropping the entries of every kind cluster
RemoveEntriesAnyCluster(config, contextName) ==
    LET kind == {k \in (config.Contexts \cup config.AuthInfos) \cup config.Clusters :
                    k # OtherContext}
    IN [Contexts       |-> config.Contexts \ kind,
        AuthInfos      |-> config.AuthInfos \ kind,
        Clusters       |-> config.Clusters \ kind,
        CurrentContext |-> IF config.CurrentContext = contextName
                           THEN "" ELSE config.CurrentContext]

\* RemoveEntries clearing the marker whatever it names
RemoveEntriesClearAlways(config, contextName) ==
    [Contexts       |-> config.Contexts \ {contextName},
     AuthInfos      |-> config.AuthInfos \ {contextName},
     Clusters       |-> config.Clusters \ {contextName},
     CurrentContext |-> ""]

\* part_003:371-377  the in-memory edit of the loaded document
RemoveEntries(config, contextName) ==
    [Contexts       |-> config.Contexts \ {contextName},
     AuthInfos      |-> config.AuthInfos \ {contextName},
     Clusters       |-> config.Clusters \ {contextName},
     CurrentContext |-> IF config.CurrentContext = contextName
                        THEN "" ELSE config.CurrentContext]

(***************************************************************************)
(* Framework values and Go values  (utils.go)                              *)
(*                                                                         *)
(* A framework attr.Value is [t, state, v]: its type, whether it is known, *)
(* null or unknown, and its content.  A Go value of type any is [k, v]:    *)
(* its dynamic type and its content.  A Go map is a function on its keys   *)
(* (the nil map has none), a Go int is a GoInt.                            *)
(***************************************************************************)
AttrNull(t) == [t |-> t, state |-> "null", v |-> <<>>]
AttrUnknown(t) == [t |-> t, state |-> "unknown", v |-> <<>>]
AttrKnown(t, v) == [t |-> t, state |-> "known", v |-> v]
AttrString(s) == AttrKnown("String", s)
AttrBool(b) == AttrKnown("Bool", b)
AttrInt64(i) == AttrKnown("Int64", i)
AttrList(elements) == AttrKnown("List", elements)
AttrMap(elements) == AttrKnown("Map", elements)
AttrObject(attrs) == AttrKnown("Object", attrs)

GoNil == [k |-> "nil", v |-> <<>>]
GoString(s) == [k |-> "string", v |-> s]
GoBool(b) == [k |-> "bool", v |-> b]
GoIntValue(i) == [k |-> "int", v |-> i]
GoFloat64(f) == [k |-> "float64", v |-> f]
GoSlice(items) == [k |-> "slice", v |-> items]
GoMap(m) == [k |-> "map", v |-> m]

\* a Go slice or map that may be nil
NilSlice == [isNil |-> TRUE, items |-> <<>>]
SliceOf(items) == [isNil |-> FALSE, items |-> items]
NilMap == [isNil |-> TRUE, m |-> <<>>]
MapOf(m) == [isNil |-> FALSE, m |-> m]

\* the items of type k, the last one first
ItemsOfTypeReversed(s, k) ==
    LET kept == SelectSeq(s, LAMBDA item : item.k = k)
    IN [i \in 1..Len(kept) |-> kept[Len(kept) + 1 - i].v]

\* the items of s whose dynamic type is k, each as a value of that type
ItemsOfType(s, k) ==
    LET kept == SelectSeq(s, LAMBDA item : item.k = k)
    IN [i \in 1..Len(kept) |-> kept[i].v]

RECURSIVE attrValueToAny(_)
\* a listToSlice that leaves out the elements that convert to nil
listToSliceSkipNil(list) ==
    IF list.state # "known" THEN NilSlice
    ELSE LET kept == SelectSeq(list.v, LAMBDA elem : elem.state = "known")
         IN SliceOf([i \in 1..Len(kept) |-> attrValueToAny(kept[i])])

\* utils.go:236-249  listToSlice
listToSlice(list) ==
    IF list.state # "known" THEN NilSlice
    ELSE SliceOf([i \in 1..Len(list.v) |-> attrValueToAny(list.v[i])])

\* utils.go:252-265  setToSlice
setToSlice(set) ==
    IF set.state # "known" THEN NilSlice
    ELSE SliceOf([i \in 1..Len(set.v) |-> attrValueToAny(set.v[i])])

\* utils.go:268-281  mapToMap
mapToMap(m) ==
    IF m.state # "known" THEN NilMap
    ELSE MapOf([key \in DOMAIN m.v |-> attrValueToAny(m.v[key])])

\* utils.go:187-200  objectToMap
objectToMap(obj) ==
    IF obj.state # "known" THEN NilMap
    ELSE MapOf([key \in DOMAIN obj.v |-> attrValueToAny(obj.v[key])])

\* utils.go:204-233  attrValueToAny; int is 64 bits wide
attrValueToAny(value) ==
    IF value.state # "known" THEN GoNil
    ELSE CASE value.t = "String" -> GoString(value.v)
           [] value.t = "Bool" -> GoBool(value.v)
           [] value.t = "Int64" -> GoIntValue(value.v)
           [] value.t = "Float64" -> GoFloat64(value.v)
           [] value.t = "Number" -> GoFloat64(value.v)
           [] value.t = "List" -> GoSlice(listToSlice(value).items)
           [] value.t = "Set" -> GoSlice(setToSlice(value).items)
           [] value.t = "Map" -> GoMap(mapToMap(value).m)
           [] value.t = "Object" -> GoMap(objectToMap(value).m)
           [] OTHER -> GoNil

\* m[key] exists, is not nil and has dynamic type k
HasType(m, key, k) == key \in DOMAIN m /\ m[key].k = k

\* utils.go:58-67
getString(m, key) == IF HasType(m, key, "string") THEN m[key].v ELSE ""

\* a getInt whose default is not the zero value
getIntOrOne(m, key) == IF HasType(m, key, "int") THEN m[key].v ELSE GoInt(0, 1)

\* utils.go:70-79
getInt(m, key) == IF HasType(m, key, "int") THEN m[key].v ELSE GoInt(0, 0)

\* utils.go:82-91
getBool(m, key) == IF HasType(m, key, "bool") THEN m[key].v ELSE FALSE

\* utils.go:95-111  the string items of a slice, nil when there is no slice
getStringSlice(m, key) ==
    IF HasType(m, key, "slice")
    THEN SliceOf(ItemsOfType(m[key].v, "string"))
    ELSE NilSlice

\* utils.go:115-131  the map items of a slice, nil when there is no slice
getMapSlice(m, key) ==
    IF HasType(m, key, "slice")
    THEN SliceOf(ItemsOfType(m[key].v, "map"))
    ELSE NilSlice

\* utils.go:135-151  the string entries of a map, nil when there is no map
getStringMap(m, key) ==
    IF HasType(m, key, "map")
    THEN LET src == m[key].v
         IN MapOf([kk \in {kk \in DOMAIN src : src[kk].k = "string"} |-> src[kk].v])
    ELSE NilMap

(***************************************************************************)
(* The normalizer  (part_006)                                              *)
(*                                                                         *)
(* A Go error is [isNil, text, field, value, is]: the messages wrapped     *)
(* around it with %w, outermost first, the field and value its own message *)
(* names, and the sentinel errors errors.Is finds in its chain.            *)
(***************************************************************************)
\* part_006:31
ErrPortOutOfRange == "port value out of valid range"

NoErr ==
    [isNil |-> TRUE, text |-> <<>>, field |-> "", value |-> GoInt(0, 0), is |-> {}]

\* part_006:141, 218, 227  fmt.Errorf("<field> value %d (must be ...): %w",
\* port, ..., ErrPortOutOfRange)
PortError(field, port) ==
    [isNil |-> FALSE, text |-> <<>>, field |-> field, value |-> port,
     is |-> {ErrPortOutOfRange}]

\* fmt.Errorf("<prefix>: %w", err)
Wrap(prefix, err) == [err EXCEPT !.text = <<prefix>> \o @]

\* int32(port): the low 32 bits of port
Int32(port) == GoInt(-(port.hi % 2), port.lo)

\* the first index whose result carries an error, 0 when none does
FirstError(results) ==
    IF \A i \in 1..Len(results) : results[i].err.isNil THEN 0
    ELSE CHOOSE i \in 1..Len(results) :
            /\ ~results[i].err.isNil
            /\ \A j \in 1..(i - 1) : results[j].err.isNil

\* a conversion to the typed string without a switch
AnyOf(value, allowed) == value

\* a switch that keeps a string of the allow-list and leaves the zero value
\* for any other
OneOf(value, allowed) == IF value \in allowed THEN value ELSE ""

\* part_006:209-246
flattenKindConfigExtraPortMappings(portMappingConfig) ==
    LET obj == [ListenAddress |-> getString(portMappingConfig, "listen_address"),
                ContainerPort |-> GoInt(0, 0), HostPort |-> GoInt(0, 0),
                Protocol |-> ""]
        containerPort == getInt(portMappingConfig, "container_port")
        hostPort == getInt(portMappingConfig, "host_port")
        withContainer == [obj EXCEPT !.ContainerPort = Int32(containerPort)]
        withHost == [withContainer EXCEPT !.HostPort = Int32(hostPort)]
    IN IF PortOutOfRange(containerPort)
       THEN [obj |-> obj, err |-> PortError("container_port", containerPort)]
       ELSE IF PortOutOfRange(hostPort)
       THEN [obj |-> withContainer, err |-> PortError("host_port", hostPort)]
       ELSE [obj |-> [withHost EXCEPT !.Protocol =
                        OneOf(getString(portMappingConfig, "protocol"),
                              {"SCTP", "TCP", "UDP"})],
             err |-> NoErr]

\* part_006:184-206
flattenKindConfigExtraMounts(mountConfig) ==
    [ContainerPath |-> getString(mountConfig, "container_path"),
     HostPath |-> getString(mountConfig, "host_path"),
     Readonly |-> getBool(mountConfig, "read_only"),
     SelinuxRelabel |-> getBool(mountConfig, "selinux_relabel"),
     Propagation |-> OneOf(getString(mountConfig, "propagation"),
                           {"Bidirectional", "HostToContainer", "None"})]

\* part_006:131-181
flattenKindConfigNetworking(networkingConfig) ==
    LET obj == [APIServerAddress |-> getString(networkingConfig, "api_server_address"),
                DisableDefaultCNI |-> getBool(networkingConfig, "disable_default_cni"),
                APIServerPort |-> GoInt(0, 0), IPFamily |-> "",
                KubeProxyMode |-> "", PodSubnet |-> "", ServiceSubnet |-> "",
                DNSSearch |-> NilSlice]
        port == getInt(networkingConfig, "api_server_port")
    IN IF PortOutOfRange(port)
       THEN [obj |-> obj, err |-> PortError("api_server_port", port)]
       ELSE [obj |->
               [obj EXCEPT
                  !.APIServerPort = Int32(port),
                  !.IPFamily = OneOf(getString(networkingConfig, "ip_family"),
                                     {"ipv4", "ipv6", "dual"}),
                  !.KubeProxyMode = OneOf(getString(networkingConfig, "kube_proxy_mode"),
                                          {"iptables", "ipvs", "none"}),
                  !.PodSubnet = getString(networkingConfig, "pod_subnet"),
                  !.ServiceSubnet = getString(networkingConfig, "service_subnet"),
                  !.DNSSearch = getStringSlice(networkingConfig, "dns_search")],
             err |-> NoErr]

\* part_006:86-128
flattenKindConfigNodes(nodeConfig) ==
    LET mounts == getMapSlice(nodeConfig, "extra_mounts").items
        ports == getMapSlice(nodeConfig, "extra_port_mappings").items
        mappings == [i \in 1..Len(ports) |->
                        flattenKindConfigExtraPortMappings(ports[i])]
        bad == FirstError(mappings)
        obj == [Role |-> OneOf(getString(nodeConfig, "role"),
                               {"control-plane", "worker"}),
                Image |-> getString(nodeConfig, "image"),
                ExtraMounts |-> [i \in 1..Len(mounts) |->
                                    flattenKindConfigExtraMounts(mounts[i])],
                Labels |-> getStringMap(nodeConfig, "labels"),
                ExtraPortMappings |-> <<>>,
                KubeadmConfigPatches |-> NilSlice]
    IN IF bad # 0
       THEN [obj |-> [obj EXCEPT !.ExtraPortMappings =
                         [i \in 1..(bad - 1) |-> mappings[i].obj]],
             err |-> Wrap("failed to flatten port mapping configuration",
                          mappings[bad].err)]
       ELSE [obj |-> [obj EXCEPT
                         !.ExtraPortMappings =
                             [i \in 1..Len(ports) |-> mappings[i].obj],
                         !.KubeadmConfigPatches =
                             getStringSlice(nodeConfig, "kubeadm_config_patches")],
             err |-> NoErr]

\* a rewrite that drops every old byte instead of replacing it
ReplaceAllByNothing(str, old, new) == SelectSeq(str, LAMBDA c : c # old)

\* strings.ReplaceAll(str, old, new) for one-byte old and new; the string
\* is the sequence of its bytes
ReplaceAll(str, old, new) ==
    [i \in 1..Len(str) |-> IF str[i] = old THEN new ELSE str[i]]

\* a comparison that does not fold case
EqualTrue(v) == v = "true"

\* strings.EqualFold(v, "true")
EqualFoldTrue(v) ==
    v \in {a \o b \o c \o d :
              a \in {"t", "T"}, b \in {"r", "R"}, c \in {"u", "U"}, d \in {"e", "E"}}

\* part_006:66-72  the maps the loop over runtimeConfig can leave: each
\* rewritten key holds the value of one of the keys rewritten to it (the
\* last the iteration visits, and Go fixes no iteration order)
RuntimeConfigs(runtimeConfig) ==
    IF runtimeConfig.isNil THEN {NilMap}
    ELSE LET m == runtimeConfig.m
             newKeys == {ReplaceAll(k, "_", "/") : k \in DOMAIN m}
         IN {MapOf(f) : f \in
                {f \in [newKeys -> {m[k] : k \in DOMAIN m}] :
                    \A nk \in newKeys :
                       \E k \in DOMAIN m :
                          ReplaceAll(k, "_", "/") = nk /\ f[nk] = m[k]}}

\* part_006:75-80
FeatureGates(featureGates) ==
    IF featureGates.isNil THEN NilMap
    ELSE MapOf([k \in DOMAIN featureGates.m |-> EqualFoldTrue(featureGates.m[k])])

\* the zero v1alpha4.Networking
ZeroNetworking ==
    [APIServerAddress |-> "", DisableDefaultCNI |-> FALSE,
     APIServerPort |-> GoInt(0, 0), IPFamily |-> "", KubeProxyMode |-> "",
     PodSubnet |-> "", ServiceSubnet |-> "", DNSSearch |-> NilSlice]

\* the zero v1alpha4.Cluster
ZeroCluster ==
    [Kind |-> "", APIVersion |-> "", Nodes |-> <<>>, Networking |-> ZeroNetworking,
     ContainerdConfigPatches |-> NilSlice, RuntimeConfig |-> NilMap,
     FeatureGates |-> NilMap]

\* a (*v1alpha4.Cluster, error) pair with a nil cluster
NoCluster(err) == [isNil |-> TRUE, obj |-> ZeroCluster, err |-> err]

\* part_006:35-83  the results flattenKindConfig can return
flattenKindConfig(kindConfig) ==
    LET nodeMaps == getMapSlice(kindConfig, "node").items
        nodes == [i \in 1..Len(nodeMaps) |-> flattenKindConfigNodes(nodeMaps[i])]
        badNode == FirstError(nodes)
        networkingSlice == getMapSlice(kindConfig, "networking").items
        networking ==
            IF Len(networkingSlice) > 0
            THEN flattenKindConfigNetworking(networkingSlice[1])
            ELSE [obj |-> ZeroNetworking, err |-> NoErr]
    IN IF badNode # 0
       THEN {NoCluster(Wrap("failed to flatten node configuration",
                            nodes[badNode].err))}
       ELSE IF ~networking.err.isNil
       THEN {NoCluster(Wrap("failed to flatten networking configuration",
                            networking.err))}
       ELSE {[isNil |-> FALSE,
              obj |-> [Kind |-> getString(kindConfig, "kind"),
                       APIVersion |-> getString(kindConfig, "api_version"),
                       Nodes |-> [i \in 1..Len(nodeMaps) |-> nodes[i].obj],
                       Networking |-> networking.obj,
                       ContainerdConfigPatches |->
                           getStringSlice(kindConfig, "containerd_config_patches"),
                       RuntimeConfig |-> rc,
                       FeatureGates |->
                           FeatureGates(getStringMap(kindConfig, "feature_gates"))],
              err |-> NoErr] :
                rc \in RuntimeConfigs(getStringMap(kindConfig, "runtime_config"))}

\* list.Elements()
Elements(list) == IF list.state = "known" THEN list.v ELSE <<>>

\* utils.go:155-184  the results parseKindConfigFromFramework can return
parseKindConfigFromFramework(kindConfigList) ==
    IF kindConfigList.state = "null" \/ Len(Elements(kindConfigList)) = 0
    THEN {NoCluster(NoErr)}
    ELSE IF Elements(kindConfigList)[1].t # "Object"
    THEN {NoCluster(NoErr)}
    ELSE {IF res.err.isNil THEN res
          ELSE NoCluster(Wrap("failed to parse kind configuration", res.err)) :
             res \in flattenKindConfig(objectToMap(Elements(kindConfigList)[1]).m)}

(***************************************************************************)
(* State                                                                   *)
(***************************************************************************)
VARIABLES
    tfconfig,  \* resource -> the user's configuration of it (never changes)
    engine,    \* the clusters (whole or partial) the provisioning engine holds
    files,     \* path -> kubeconfig document on disk
    tfstate,   \* resource -> the host engine's persisted state record
    op,        \* resource -> the handler in flight ("none" when idle)
    pc,        \* resource -> the handler's position
    loc,       \* resource -> the handler's local variables
    diags,     \* resource -> resp.Diagnostics of the invocation
    warns,     \* resource -> the tflog.Warn lines of the invocation
    calls,     \* resource -> the engine and file-system calls of the invocation
    gpc,       \* resource -> position of Delete's background goroutine
    errChan,   \* resource -> content of Delete's buffered channel (capacity 1)
    done,      \* resource -> why deleteCtx.Done() is closed, or "open"
    args,      \* the call of a decoder or normalizer function under test
    ret        \* what that call returned ("pending" before it returns)

vars == <<tfconfig, engine, files, tfstate, op, pc, loc, diags, warns, calls,
          gpc, errChan, done, args, ret>>

\* the variables of a decoder or normalizer call made on its own
pureVars == <<args, ret>>

\* no call is under test
NoCall == [fn |-> "none", in |-> <<>>]

\* the call has not returned
Pending == [returned |-> FALSE, out |-> <<>>]

Paths ==
    {defaultKubeconfigPath, CustomPath}
        \cup {ExportPath(n) : n \in Resources \cup {""}}

\* part_003:73-86  ClusterResourceModel; a null or unknown string is ""
NullModel ==
    [kind_config |-> NullList, id |-> "", name |-> "", node_image |-> "",
     kubeconfig_path |-> "", kubeconfig |-> "", client_certificate |-> "",
     client_key |-> "", cluster_ca_certificate |-> "", endpoint |-> "",
     wait_for_ready |-> FALSE, completed |-> FALSE]

EmptyDoc ==
    [Contexts |-> {}, AuthInfos |-> {}, Clusters |-> {}, CurrentContext |-> ""]

NoOptions ==
    [kubeconfigPath |-> "", withConfig |-> FALSE, nodeImage |-> "",
     waitForReady |-> FALSE]

\* the locals of a handler before it starts
InitLoc ==
    [data |-> NullModel, name |-> "", nodeImage |-> "", kubeconfigPath |-> "",
     copts |-> NoOptions, attempt |-> 0, err |-> Nil, kconfig |-> "",
     configPath |-> "", configType |-> "", config |-> EmptyDoc]

\* resp.Diagnostics.AddError(summary, detail): the detail is kept as the
\* values formatted into it
ErrorDiag(summary, name, attempts, cause) ==
    [summary |-> summary, name |-> name, attempts |-> attempts, cause |-> cause]

HasError(r) == Len(diags[r]) > 0

Call(call, name, arg, ok) == [call |-> call, name |-> name, arg |-> arg, ok |-> ok]

\* WarnOnly turned fatal: the message also becomes an error diagnostic
WarnAsError(r, msg) ==
    /\ warns' = [warns EXCEPT ![r] = Append(@, msg)]
    /\ diags' = [diags EXCEPT ![r] = Append(@, ErrorDiag(msg, "", 0, "warning"))]

\* part_003:157, 363, 381  tflog.Warn(ctx, msg): a log line, and nothing
\* added to resp.Diagnostics
WarnOnly(r, msg) ==
    /\ warns' = [warns EXCEPT ![r] = Append(@, msg)]
    /\ diags' = diags

\* the documents a kubeconfig file may hold when the controller first sees
\* it: any mix of the cluster's own three entries, the foreign entries all
\* present or all absent, any current-context marker
InitDocs ==
    {d \in KubeconfigDocs :
        \/ OtherContext \in (d.Contexts \cap d.AuthInfos) \cap d.Clusters
        \/ OtherContext \notin (d.Contexts \cup d.AuthInfos) \cup d.Clusters}

\* the document kind leaves behind for cluster n next to a foreign entry
TypicalDoc(n) ==
    [Contexts |-> {ContextName(n), OtherContext},
     AuthInfos |-> {ContextName(n), OtherContext},
     Clusters |-> {ContextName(n), OtherContext},
     CurrentContext |-> ContextName(n)]

\* the configurations of a resource: node_image, kubeconfig_path,
\* wait_for_ready and the kind_config blocks
Configs ==
    [node_image : PlanImages, kubeconfig_path : PlanPaths,
     wait_for_ready : BOOLEAN, kind_config : PlanKindConfigs]

PlainConfig(c) ==
    c.node_image = "" /\ ~c.wait_for_ready /\ c.kind_config = NullList

\* the kubeconfig path a read records for configuration c of resource r
UsedPath(r, c) ==
    IF c.kubeconfig_path = "" THEN ExportPath(r) ELSE c.kubeconfig_path

\* The inputs of a behaviour: the configuration and the kubeconfig files.
\* Either every file holds the typical document and the configuration is
\* any, or the configuration is plain and one of the two files Delete
\* cleans holds any document.  The engine holds no cluster, or (plain
\* configuration, typical files) the one it takes the empty name for, made
\* outside the controller: the cluster an imported record refers to.
Init ==
    /\ \E c \in Configs, d \in InitDocs :
          \E p \in {defaultKubeconfigPath, UsedPath("a", c)} :
             /\ d = TypicalDoc("a") \/ PlainConfig(c)
             /\ tfconfig = [r \in Resources |-> c]
             /\ files = [q \in Paths |-> IF q = p THEN d ELSE TypicalDoc("a")]
             /\ engine \in
                   IF d = TypicalDoc("a") /\ PlainConfig(c) THEN {{}, {""}} ELSE {{}}
    /\ tfstate = [r \in Resources |-> NoRecord]
    /\ op = [r \in Resources |-> "none"]
    /\ pc = [r \in Resources |-> "idle"]
    /\ loc = [r \in Resources |-> InitLoc]
    /\ diags = [r \in Resources |-> <<>>]
    /\ warns = [r \in Resources |-> <<>>]
    /\ calls = [r \in Resources |-> <<>>]
    /\ gpc = [r \in Resources |-> "none"]
    /\ errChan = [r \in Resources |-> <<>>]
    /\ done = [r \in Resources |-> "open"]
    /\ args = NoCall
    /\ ret = Pending

deleteVars == <<gpc, errChan, done>>

\* a handler returns to the framework
Return(r) == pc' = [pc EXCEPT ![r] = "returned"]

(***************************************************************************)
(* Create  (part_003:97-193)                                               *)
(***************************************************************************)
\* part_003:97-148  read the plan (the configuration, computed values
\* unknown), choose the node image, parse kind_config, build the create
\* options
CreateBegin(r) ==
    /\ pc[r] = "idle"
    /\ tfstate[r] = NoRecord
    /\ \E getOk \in BOOLEAN :
          LET plan == [NullModel EXCEPT
                          !.name = r,
                          !.node_image = tfconfig[r].node_image,
                          !.kubeconfig_path = tfconfig[r].kubeconfig_path,
                          !.wait_for_ready = tfconfig[r].wait_for_ready,
                          !.kind_config = tfconfig[r].kind_config]
              nodeImage == EffectiveImage(plan.node_image)
          IN  /\ op' = [op EXCEPT ![r] = "Create"]
              /\ calls' = [calls EXCEPT ![r] = <<>>]
              /\ warns' = [warns EXCEPT ![r] = <<>>]
              /\ IF ~getOk
                 THEN /\ diags' = [diags EXCEPT ![r] =
                            <<ErrorDiag("Error reading plan", "", 0, "plan")>>]
                      /\ loc' = [loc EXCEPT ![r] = InitLoc]
                      /\ Return(r)
                 ELSE IF ParseKindConfigFails(plan.kind_config)
                 THEN /\ diags' = [diags EXCEPT ![r] =
                            <<ErrorDiag("Error parsing kind_config", "", 0,
                                        "port value out of valid range")>>]
                      /\ loc' = [loc EXCEPT ![r] =
                            [InitLoc EXCEPT !.data = plan, !.name = plan.name,
                                            !.nodeImage = nodeImage,
                                            !.kubeconfigPath = plan.kubeconfig_path]]
                      /\ Return(r)
                 ELSE /\ diags' = [diags EXCEPT ![r] = <<>>]
                      /\ loc' = [loc EXCEPT ![r] =
                            [InitLoc EXCEPT !.data = plan, !.name = plan.name,
                                            !.nodeImage = nodeImage,
                                            !.kubeconfigPath = plan.kubeconfig_path,
                                            !.copts = CreateOptions(plan, nodeImage),
                                            !.attempt = 0]]
                      /\ pc' = [pc EXCEPT ![r] = "create"]
    /\ UNCHANGED <<tfconfig, engine, files, tfstate, deleteVars>>
    /\ UNCHANGED pureVars

\* AfterCleanup leaving the loop when the cleanup delete failed
AfterCleanupAbortOnError(delOk) == IF delOk THEN "create" ELSE "created"

\* part_003:155-163  where Create goes after the cleanup delete: on to the
\* next provider.Create, whatever the delete returned
AfterCleanup(delOk) == "create"

\* part_003:154-161  before a retry: best-effort provider.Delete(name, ""),
\* a warning when it fails, then time.Sleep(retryDelay)
CreateRetryCleanup(r) ==
    /\ pc[r] = "cleanup"
    /\ \E delOk \in BOOLEAN :
          /\ engine' = IF delOk THEN engine \ {loc[r].name} ELSE engine
          /\ IF delOk THEN UNCHANGED <<warns, diags>>
             ELSE WarnOnly(r, "Failed to delete cluster during retry")
          /\ calls' = [calls EXCEPT ![r] =
                @ \o <<Call("Delete", loc[r].name, "", delOk),
                       Call("Sleep", "", "5s", TRUE)>>]
          /\ pc' = [pc EXCEPT ![r] = AfterCleanup(delOk)]
    /\ UNCHANGED <<tfconfig, files, tfstate, op, loc, deleteVars>>
    /\ UNCHANGED pureVars

\* AfterFailedAttempt with the loop bound off by one: a fourth attempt
AfterFailedAttemptOneMore(attempt) ==
    IF attempt <= maxRetries THEN "cleanup" ELSE "created"

\* where the for loop of part_003:153 goes after a failed attempt
AfterFailedAttempt(attempt) ==
    IF attempt + 1 <= maxRetries THEN "cleanup" ELSE "created"

\* part_003:163-167  one provider.Create(name, copts...); a failed attempt
\* may leave a partial cluster behind
CreateAttempt(r) ==
    /\ pc[r] = "create"
    /\ \E createOk \in BOOLEAN, left \in BOOLEAN :
          /\ engine' = IF createOk \/ left THEN engine \cup {loc[r].name}
                       ELSE engine
          /\ calls' = [calls EXCEPT ![r] =
                Append(@, Call("Create", loc[r].name, loc[r].copts.nodeImage,
                               createOk))]
          /\ IF createOk
             THEN /\ loc' = [loc EXCEPT ![r].err = Nil]
                  /\ pc' = [pc EXCEPT ![r] = "created"]
             ELSE /\ loc' = [loc EXCEPT ![r].err = "create failed",
                                        ![r].attempt = @ + 1]
                  /\ pc' = [pc EXCEPT ![r] = AfterFailedAttempt(loc[r].attempt)]
    /\ UNCHANGED <<tfconfig, files, tfstate, op, diags, warns, deleteVars>>
    /\ UNCHANGED pureVars

\* CreateFailedDiag reporting the retries instead of the attempts
CreateFailedDiagRetries(name, err) ==
    ErrorDiag("Error creating Kind cluster", name, maxRetries, err)

\* part_003:170-173  the fatal error of a Create whose attempts all failed
CreateFailedDiag(name, err) ==
    ErrorDiag("Error creating Kind cluster", name, maxRetries + 1, err)

\* part_003:169-182  after the loop: the fatal error, or node_image and id
\* set in the record to save
CreateResult(r) ==
    /\ pc[r] = "created"
    /\ IF loc[r].err # Nil
       THEN /\ diags' = [diags EXCEPT ![r] =
                  Append(@, CreateFailedDiag(loc[r].name, loc[r].err))]
            /\ loc' = loc
            /\ Return(r)
       ELSE /\ loc' = [loc EXCEPT
                  ![r].data.node_image = loc[r].nodeImage,
                  ![r].data.id = ResourceID(loc[r].name, loc[r].nodeImage)]
            /\ diags' = diags
            /\ pc' = [pc EXCEPT ![r] = "kubeconfig"]
    /\ UNCHANGED <<tfconfig, engine, files, tfstate, op, warns, calls, deleteVars>>
    /\ UNCHANGED pureVars

(***************************************************************************)
(* readClusterState  (part_003:401-454), called by Create and by Read.     *)
(* Both callers return at once when it has added an error                  *)
(* (part_003:187-189, 215-217).                                            *)
(***************************************************************************)
\* ReadKubeConfig going on to the export whatever path is recorded
ReadKubeConfigAlwaysExport(r) ==
    /\ pc[r] = "kubeconfig"
    /\ \/ /\ calls' = [calls EXCEPT ![r] =
                Append(@, Call("KubeConfig", loc[r].data.name, "", FALSE))]
          /\ diags' = [diags EXCEPT ![r] =
                Append(@, ErrorDiag("Error reading Kind cluster",
                                    loc[r].data.name, 0, "kubeconfig"))]
          /\ loc' = loc
          /\ Return(r)
       \/ /\ loc[r].data.name \in engine
          /\ \E kconfig \in Kubeconfigs :
                loc' = [loc EXCEPT ![r].kconfig = kconfig,
                                   ![r].data.kubeconfig = kconfig]
          /\ calls' = [calls EXCEPT ![r] =
                Append(@, Call("KubeConfig", loc[r].data.name, "", TRUE))]
          /\ diags' = diags
          /\ pc' = [pc EXCEPT ![r] = "export"]
    /\ UNCHANGED <<tfconfig, engine, files, tfstate, op, warns, deleteVars>>
    /\ UNCHANGED pureVars

\* part_003:402-417  provider.KubeConfig(name, false); the engine can hand
\* out a kubeconfig only for a cluster it holds
ReadKubeConfig(r) ==
    /\ pc[r] = "kubeconfig"
    /\ \/ /\ calls' = [calls EXCEPT ![r] =
                Append(@, Call("KubeConfig", loc[r].data.name, "", FALSE))]
          /\ diags' = [diags EXCEPT ![r] =
                Append(@, ErrorDiag("Error reading Kind cluster",
                                    loc[r].data.name, 0, "kubeconfig"))]
          /\ loc' = loc
          /\ Return(r)
       \/ /\ loc[r].data.name \in engine
          /\ \E kconfig \in Kubeconfigs :
                loc' = [loc EXCEPT ![r].kconfig = kconfig,
                                   ![r].data.kubeconfig = kconfig]
          /\ calls' = [calls EXCEPT ![r] =
                Append(@, Call("KubeConfig", loc[r].data.name, "", TRUE))]
          /\ diags' = diags
          /\ pc' = [pc EXCEPT ![r] =
                IF loc[r].data.kubeconfig_path = "" THEN "export" ELSE "parse"]
    /\ UNCHANGED <<tfconfig, engine, files, tfstate, op, warns, deleteVars>>
    /\ UNCHANGED pureVars

\* part_003:420-440  no path recorded: os.Getwd, provider.ExportKubeConfig
\* to <cwd>/<name>-config, record the path
ReadExport(r) ==
    /\ pc[r] = "export"
    /\ LET name == loc[r].data.name
           exportPath == ExportPath(name)
       IN \/ /\ calls' = [calls EXCEPT ![r] =
                   Append(@, Call("Getwd", "", "", FALSE))]
             /\ diags' = [diags EXCEPT ![r] =
                   Append(@, ErrorDiag("Error getting current directory",
                                       "", 0, "getwd"))]
             /\ loc' = loc
             /\ Return(r)
          \/ /\ calls' = [calls EXCEPT ![r] =
                   @ \o <<Call("Getwd", "", Cwd, TRUE),
                          Call("ExportKubeConfig", name, exportPath, FALSE)>>]
             /\ diags' = [diags EXCEPT ![r] =
                   Append(@, ErrorDiag("Error exporting kubeconfig", name, 0,
                                       "export"))]
             /\ loc' = loc
             /\ Return(r)
          \/ /\ calls' = [calls EXCEPT ![r] =
                   @ \o <<Call("Getwd", "", Cwd, TRUE),
                          Call("ExportKubeConfig", name, exportPath, TRUE)>>]
             /\ diags' = diags
             /\ loc' = [loc EXCEPT ![r].data.kubeconfig_path = exportPath]
             /\ pc' = [pc EXCEPT ![r] = "parse"]
    /\ UNCHANGED <<tfconfig, engine, files, tfstate, op, warns, deleteVars>>
    /\ UNCHANGED pureVars

\* ReadParse adding the parse error and carrying on to the save
ReadParseNoReturn(r) ==
    /\ pc[r] = "parse"
    /\ diags' = [diags EXCEPT ![r] =
          IF ParseFails(loc[r].kconfig)
          THEN Append(@, ErrorDiag("Error parsing kubeconfig", "", 0, "parse"))
          ELSE @]
    /\ loc' = [loc EXCEPT
          ![r].data.client_certificate = CertData(loc[r].kconfig),
          ![r].data.client_key = KeyData(loc[r].kconfig),
          ![r].data.cluster_ca_certificate = CAData(loc[r].kconfig),
          ![r].data.endpoint = Host(loc[r].kconfig),
          ![r].data.completed = TRUE]
    /\ pc' = [pc EXCEPT ![r] = "save"]
    /\ UNCHANGED <<tfconfig, engine, files, tfstate, op, warns, calls, deleteVars>>
    /\ UNCHANGED pureVars

\* part_003:442-453  clientcmd.RESTConfigFromKubeConfig, the coordinates and
\* completed
ReadParse(r) ==
    /\ pc[r] = "parse"
    /\ IF ParseFails(loc[r].kconfig)
       THEN /\ diags' = [diags EXCEPT ![r] =
                  Append(@, ErrorDiag("Error parsing kubeconfig", "", 0, "parse"))]
            /\ loc' = loc
            /\ Return(r)
       ELSE /\ loc' = [loc EXCEPT
                  ![r].data.client_certificate = CertData(loc[r].kconfig),
                  ![r].data.client_key = KeyData(loc[r].kconfig),
                  ![r].data.cluster_ca_certificate = CAData(loc[r].kconfig),
                  ![r].data.endpoint = Host(loc[r].kconfig),
                  ![r].data.completed = TRUE]
            /\ diags' = diags
            /\ pc' = [pc EXCEPT ![r] = "save"]
    /\ UNCHANGED <<tfconfig, engine, files, tfstate, op, warns, calls, deleteVars>>
    /\ UNCHANGED pureVars

\* part_003:191-192  Create saves the record
CreateSave(r) ==
    /\ pc[r] = "save"
    /\ op[r] = "Create"
    /\ tfstate' = [tfstate EXCEPT ![r] = loc[r].data]
    /\ Return(r)
    /\ UNCHANGED <<tfconfig, engine, files, op, loc, diags, warns, calls, deleteVars>>
    /\ UNCHANGED pureVars

(***************************************************************************)
(* Read  (part_003:203-221)                                                *)
(***************************************************************************)
\* part_003:203-213  load the prior state record, then readClusterState
ReadBegin(r) ==
    /\ pc[r] = "idle"
    /\ tfstate[r] # NoRecord
    /\ op' = [op EXCEPT ![r] = "Read"]
    /\ calls' = [calls EXCEPT ![r] = <<>>]
    /\ warns' = [warns EXCEPT ![r] = <<>>]
    /\ \E getOk \in BOOLEAN :
          IF getOk
          THEN /\ loc' = [loc EXCEPT ![r] =
                     [InitLoc EXCEPT !.data = tfstate[r],
                                     !.name = tfstate[r].name]]
               /\ diags' = [diags EXCEPT ![r] = <<>>]
               /\ pc' = [pc EXCEPT ![r] = "kubeconfig"]
          ELSE /\ loc' = [loc EXCEPT ![r] = InitLoc]
               /\ diags' = [diags EXCEPT ![r] =
                     <<ErrorDiag("Error reading state", "", 0, "state")>>]
               /\ Return(r)
    /\ UNCHANGED <<tfconfig, engine, files, tfstate, deleteVars>>
    /\ UNCHANGED pureVars

\* part_003:219-220  Read saves the refreshed record
ReadSave(r) ==
    /\ pc[r] = "save"
    /\ op[r] = "Read"
    /\ tfstate' = [tfstate EXCEPT ![r] = loc[r].data]
    /\ Return(r)
    /\ UNCHANGED <<tfconfig, engine, files, op, loc, diags, warns, calls, deleteVars>>
    /\ UNCHANGED pureVars

(***************************************************************************)
(* Update  (part_003:302-309)                                              *)
(***************************************************************************)
\* Update storing the planned node image instead of refusing
UpdateInPlace(r) ==
    /\ pc[r] = "idle"
    /\ tfstate[r] # NoRecord
    /\ op' = [op EXCEPT ![r] = "Update"]
    /\ calls' = [calls EXCEPT ![r] = <<>>]
    /\ warns' = [warns EXCEPT ![r] = <<>>]
    /\ loc' = [loc EXCEPT ![r] = InitLoc]
    /\ diags' = [diags EXCEPT ![r] = <<>>]
    /\ tfstate' = [tfstate EXCEPT ![r].node_image = UserImage]
    /\ Return(r)
    /\ UNCHANGED <<tfconfig, engine, files, deleteVars>>
    /\ UNCHANGED pureVars

Update(r) ==
    /\ pc[r] = "idle"
    /\ tfstate[r] # NoRecord
    /\ op' = [op EXCEPT ![r] = "Update"]
    /\ calls' = [calls EXCEPT ![r] = <<>>]
    /\ warns' = [warns EXCEPT ![r] = <<>>]
    /\ loc' = [loc EXCEPT ![r] = InitLoc]
    /\ diags' = [diags EXCEPT ![r] =
          <<ErrorDiag("Update not supported", "", 0, "update")>>]
    /\ Return(r)
    /\ UNCHANGED <<tfconfig, engine, files, tfstate, deleteVars>>
    /\ UNCHANGED pureVars

(***************************************************************************)
(* ImportState  (part_003:396-398)                                         *)
(***************************************************************************)
\* the identifier given to an import
ImportID == "imported-id"

\* part_003:396-398  resource.ImportStatePassthroughID: a state record with
\* only id set
ImportState(r) ==
    /\ pc[r] = "idle"
    /\ tfstate[r] = NoRecord
    /\ op' = [op EXCEPT ![r] = "ImportState"]
    /\ calls' = [calls EXCEPT ![r] = <<>>]
    /\ warns' = [warns EXCEPT ![r] = <<>>]
    /\ diags' = [diags EXCEPT ![r] = <<>>]
    /\ loc' = [loc EXCEPT ![r] = InitLoc]
    /\ tfstate' = [tfstate EXCEPT ![r] = [NullModel EXCEPT !.id = ImportID]]
    /\ Return(r)
    /\ UNCHANGED <<tfconfig, engine, files, deleteVars>>
    /\ UNCHANGED pureVars

(***************************************************************************)
(* Delete  (part_003:314-393)                                              *)
(***************************************************************************)
\* part_003:314-336  load the state record, derive deleteCtx from the
\* request context with the timeout, start the goroutine
DeleteBegin(r) ==
    /\ pc[r] = "idle"
    /\ tfstate[r] # NoRecord
    /\ op' = [op EXCEPT ![r] = "Delete"]
    /\ calls' = [calls EXCEPT ![r] = <<>>]
    /\ warns' = [warns EXCEPT ![r] = <<>>]
    /\ \E getOk \in BOOLEAN :
          IF getOk
          THEN /\ loc' = [loc EXCEPT ![r] =
                     [InitLoc EXCEPT !.data = tfstate[r],
                                     !.name = tfstate[r].name,
                                     !.kubeconfigPath = tfstate[r].kubeconfig_path]]
               /\ diags' = [diags EXCEPT ![r] = <<>>]
               /\ gpc' = [gpc EXCEPT ![r] = "call"]
               /\ errChan' = [errChan EXCEPT ![r] = <<>>]
               /\ done' = [done EXCEPT ![r] = "open"]
               /\ pc' = [pc EXCEPT ![r] = "select"]
          ELSE /\ loc' = [loc EXCEPT ![r] = InitLoc]
               /\ diags' = [diags EXCEPT ![r] =
                     <<ErrorDiag("Error reading state", "", 0, "state")>>]
               /\ UNCHANGED <<tfconfig, gpc, errChan, done>>
               /\ Return(r)
    /\ UNCHANGED <<tfconfig, engine, files, tfstate>>
    /\ UNCHANGED pureVars

\* part_003:335  the goroutine's provider.Delete(name, kubeconfigPath)
\* returns, with nil or with an error
GoEngineDelete(r) ==
    /\ gpc[r] = "call"
    /\ \E delOk \in BOOLEAN :
          /\ engine' = IF delOk THEN engine \ {loc[r].name} ELSE engine
          /\ gpc' = [gpc EXCEPT ![r] = IF delOk THEN "send_nil" ELSE "send_err"]
          /\ calls' = [calls EXCEPT ![r] =
                Append(@, Call("Delete", loc[r].name, loc[r].kubeconfigPath, delOk))]
    /\ UNCHANGED <<tfconfig, files, tfstate, op, pc, loc, diags, warns, errChan, done>>
    /\ UNCHANGED pureVars

\* part_003:335  the goroutine's provider.Delete never returns
GoEngineHang(r) ==
    /\ gpc[r] = "call"
    /\ gpc' = [gpc EXCEPT ![r] = "hung"]
    /\ UNCHANGED <<tfconfig, engine, files, tfstate, op, pc, loc, diags, warns, calls,
                   errChan, done>>
    /\ UNCHANGED pureVars

\* the error value the goroutine is about to send
GoResult(g) == IF g = "send_nil" THEN Nil ELSE "engine delete failed"

\* part_003:335, 341  errChan <- result: handed to Delete when it is parked
\* in the select, buffered otherwise (capacity 1, one sender: never blocks).
\* The log entry keeps whether deleteCtx.Done() was closed at the send and
\* whether the value sent is nil.
GoSend(r) ==
    /\ gpc[r] \in {"send_nil", "send_err"}
    /\ gpc' = [gpc EXCEPT ![r] = "exit"]
    /\ IF pc[r] = "parked"
       THEN /\ loc' = [loc EXCEPT ![r].err = GoResult(gpc[r])]
            /\ pc' = [pc EXCEPT ![r] = "selected"]
            /\ errChan' = errChan
       ELSE /\ errChan' = [errChan EXCEPT ![r] = Append(@, GoResult(gpc[r]))]
            /\ UNCHANGED <<tfconfig, loc, pc>>
    /\ calls' = [calls EXCEPT ![r] =
          Append(@, Call("errChan<-", "", done[r], gpc[r] = "send_nil"))]
    /\ UNCHANGED <<tfconfig, engine, files, tfstate, op, diags, warns, done>>
    /\ UNCHANGED pureVars

\* a closing of deleteCtx.Done() that a Delete parked in the select misses
CtxDoneUnseen(r, why) ==
    /\ pc[r] \in {"select", "parked"}
    /\ done[r] = "open"
    /\ done' = [done EXCEPT ![r] = why]
    /\ UNCHANGED <<tfconfig, engine, files, tfstate, op, pc, loc, diags, warns, calls,
                   gpc, errChan>>
    /\ UNCHANGED pureVars

\* part_003:325, 343  deleteCtx.Done() closes: the deadline of
\* context.WithTimeout passes ("deadline") or the request context it is
\* derived from is cancelled ("parent"); a Delete parked in the select
\* takes that case
CtxDone(r, why) ==
    /\ pc[r] \in {"select", "parked"}
    /\ done[r] = "open"
    /\ done' = [done EXCEPT ![r] = why]
    /\ IF pc[r] = "parked"
       THEN /\ loc' = [loc EXCEPT ![r].err = errDeleteTimeout]
            /\ pc' = [pc EXCEPT ![r] = "selected"]
       ELSE UNCHANGED <<tfconfig, loc, pc>>
    /\ UNCHANGED <<tfconfig, engine, files, tfstate, op, diags, warns, calls, gpc,
                   errChan>>
    /\ UNCHANGED pureVars

TimerFires(r) == CtxDone(r, "deadline")

ParentCancelled(r) == CtxDone(r, "parent")

\* part_003:340-345  Delete reaches the select: any one case that can
\* proceed is taken; when none can, Delete parks
DeleteSelect(r) ==
    /\ pc[r] = "select"
    /\ \/ /\ errChan[r] # <<>>
          /\ loc' = [loc EXCEPT ![r].err = Head(errChan[r])]
          /\ errChan' = [errChan EXCEPT ![r] = Tail(@)]
          /\ pc' = [pc EXCEPT ![r] = "selected"]
       \/ /\ done[r] # "open"
          /\ loc' = [loc EXCEPT ![r].err = errDeleteTimeout]
          /\ errChan' = errChan
          /\ pc' = [pc EXCEPT ![r] = "selected"]
       \/ /\ errChan[r] = <<>>
          /\ done[r] = "open"
          /\ UNCHANGED <<tfconfig, loc, errChan>>
          /\ pc' = [pc EXCEPT ![r] = "parked"]
    /\ UNCHANGED <<tfconfig, engine, files, tfstate, op, diags, warns, calls, gpc, done>>
    /\ UNCHANGED pureVars

\* DeleteFailed that looks only for the engine's error
DeleteFailedEngineOnly(err) == err = "engine delete failed"

\* part_003:347  if err != nil
DeleteFailed(err) == err # Nil

\* part_003:347-357, 385-387  the fatal error, or on to the cleanup of the
\* default kubeconfig
DeleteResult(r) ==
    /\ pc[r] = "selected"
    /\ IF DeleteFailed(loc[r].err)
       THEN /\ diags' = [diags EXCEPT ![r] =
                  Append(@, ErrorDiag("Error deleting Kind cluster", loc[r].name,
                                      0, loc[r].err))]
            /\ loc' = loc
            /\ Return(r)
       ELSE /\ diags' = diags
            /\ loc' = [loc EXCEPT ![r].configPath = defaultKubeconfigPath,
                                  ![r].configType = "default"]
            /\ pc' = [pc EXCEPT ![r] = "load"]
    /\ UNCHANGED <<tfconfig, engine, files, tfstate, op, warns, calls, deleteVars>>
    /\ UNCHANGED pureVars

\* part_003:387-393  after removeContext returns: the custom kubeconfig
\* when a path is recorded and the default one was just done, else return
AfterRemoveContext(r, l) ==
    IF l.configType = "default" /\ l.kubeconfigPath # ""
    THEN /\ loc' = [loc EXCEPT ![r] =
               [l EXCEPT !.configPath = l.kubeconfigPath, !.configType = "custom"]]
         /\ pc' = [pc EXCEPT ![r] = "load"]
    ELSE /\ loc' = [loc EXCEPT ![r] = l]
         /\ Return(r)

\* part_003:361-369  removeContext: clientcmd.LoadFromFile, and the check
\* that the context exists
RemoveContextLoad(r) ==
    /\ pc[r] = "load"
    /\ \E loadOk \in BOOLEAN :
          /\ calls' = [calls EXCEPT ![r] =
                Append(@, Call("LoadFromFile", "", loc[r].configPath, loadOk))]
          /\ IF ~loadOk
             THEN /\ WarnOnly(r, "Unable to load " \o loc[r].configType
                                 \o " kubeconfig for context cleanup")
                  /\ AfterRemoveContext(r, loc[r])
             ELSE /\ UNCHANGED <<warns, diags>>
                  /\ LET config == files[loc[r].configPath]
                     IN IF ~ContextExists(config, ContextName(loc[r].name))
                        THEN AfterRemoveContext(r, [loc[r] EXCEPT !.config = config])
                        ELSE /\ loc' = [loc EXCEPT ![r].config = config]
                             /\ pc' = [pc EXCEPT ![r] = "write"]
    /\ UNCHANGED <<tfconfig, engine, files, tfstate, op, deleteVars>>
    /\ UNCHANGED pureVars

\* part_003:371-382  removeContext: drop the three entries, clear the
\* current-context marker, clientcmd.WriteToFile
RemoveContextWrite(r) ==
    /\ pc[r] = "write"
    /\ \E writeOk \in BOOLEAN :
          /\ calls' = [calls EXCEPT ![r] =
                Append(@, Call("WriteToFile", "", loc[r].configPath, writeOk))]
          /\ files' = IF writeOk
                      THEN [files EXCEPT ![loc[r].configPath] =
                              RemoveEntries(loc[r].config, ContextName(loc[r].name))]
                      ELSE files
          /\ IF writeOk THEN UNCHANGED <<warns, diags>>
             ELSE WarnOnly(r, "Unable to write " \o loc[r].configType
                              \o " kubeconfig to remove context")
    /\ AfterRemoveContext(r, loc[r])
    /\ UNCHANGED <<tfconfig, engine, tfstate, op, deleteVars>>
    /\ UNCHANGED pureVars

(***************************************************************************)
(* The host engine                                                         *)
(***************************************************************************)
\* the framework takes the response: a Delete without error diagnostics
\* removes the state record (part_003:311). The invocation's goroutine, if
\* it is still inside provider.Delete, is not followed any further.
HostAck(r) ==
    /\ pc[r] = "returned"
    /\ tfstate' = IF op[r] = "Delete" /\ ~HasError(r)
                  THEN [tfstate EXCEPT ![r] = NoRecord] ELSE tfstate
    /\ op' = [op EXCEPT ![r] = "none"]
    /\ pc' = [pc EXCEPT ![r] = "idle"]
    /\ loc' = [loc EXCEPT ![r] = InitLoc]
    /\ diags' = [diags EXCEPT ![r] = <<>>]
    /\ warns' = [warns EXCEPT ![r] = <<>>]
    /\ calls' = [calls EXCEPT ![r] = <<>>]
    /\ gpc' = [gpc EXCEPT ![r] = "none"]
    /\ errChan' = [errChan EXCEPT ![r] = <<>>]
    /\ done' = [done EXCEPT ![r] = "open"]
    /\ UNCHANGED <<tfconfig, engine, files>>
    /\ UNCHANGED pureVars

Next ==
    \E r \in Resources :
        \/ CreateBegin(r)
        \/ CreateRetryCleanup(r)
        \/ CreateAttempt(r)
        \/ CreateResult(r)
        \/ ReadKubeConfig(r)
        \/ ReadExport(r)
        \/ ReadParse(r)
        \/ CreateSave(r)
        \/ ReadBegin(r)
        \/ ReadSave(r)
        \/ Update(r)
        \/ ImportState(r)
        \/ DeleteBegin(r)
        \/ GoEngineDelete(r)
        \/ GoEngineHang(r)
        \/ GoSend(r)
        \/ TimerFires(r)
        \/ ParentCancelled(r)
        \/ DeleteSelect(r)
        \/ DeleteResult(r)
        \/ RemoveContextLoad(r)
        \/ RemoveContextWrite(r)
        \/ HostAck(r)

Spec == Init /\ [][Next]_vars

(***************************************************************************)
(* Properties of Create                                                    *)
(***************************************************************************)
\* the calls of the invocation in flight with the given names, in order
CallsOf(r, names) == SelectSeq(calls[r], LAMBDA c : c.call \in names)

CreateCalls(r) == CallsOf(r, {"Create"})

\* the retry loop's calls: creates, cleanup deletes and backoff waits
LoopCalls(r) == CallsOf(r, {"Create", "Delete", "Sleep"})

Returned(r, handler) == pc[r] = "returned" /\ op[r] = handler

\* k failed create calls followed by one that succeeded
FailsThenSucceeds(cs, k) ==
    /\ Len(cs) = k + 1
    /\ \A i \in 1..k : ~cs[i].ok
    /\ cs[k + 1].ok

AllFailed(cs) == Len(cs) > 0 /\ \A i \in 1..Len(cs) : ~cs[i].ok

ReadErrors ==
    {"Error reading Kind cluster", "Error getting current directory",
     "Error exporting kubeconfig", "Error parsing kubeconfig"}

ReadFailed(r) == \E i \in 1..Len(diags[r]) : diags[r][i].summary \in ReadErrors

\* the image the configuration asks for, written out
WantedImage(r) ==
    IF tfconfig[r].node_image = "" THEN defaultNodeImage
    ELSE tfconfig[r].node_image

\* C1 as stated: when the engine fails the first k attempts (k in 0..2) and
\* succeeds on attempt k+1, Create has made exactly k+1 create calls, reports
\* no error and has saved a state record holding the effective node image.
C1_AsStated ==
    \A r \in Resources :
        (Returned(r, "Create") /\ Len(CreateCalls(r)) > 0
            /\ CreateCalls(r)[Len(CreateCalls(r))].ok)
        => /\ \E k \in 0..2 : FailsThenSucceeds(CreateCalls(r), k)
           /\ ~HasError(r)
           /\ tfstate[r] # NoRecord
           /\ tfstate[r].node_image = WantedImage(r)

\* C1 amended: Create makes at most 3 create calls and none after one that
\* succeeded; when it returns, the calls are 3 failures or k failures
\* (k in 0..2) and one success; after a success Create reports no error and
\* has saved a record holding the effective node image when the read that
\* follows succeeds, and reports the read's error and saves no record when
\* that read fails.
C1_RetryBound ==
    \A r \in Resources :
        op[r] = "Create" =>
            LET cs == CreateCalls(r)
            IN /\ Len(cs) <= 3
               /\ \A i \in 1..(Len(cs) - 1) : ~cs[i].ok
               /\ (pc[r] = "returned" /\ Len(cs) > 0) =>
                     \/ AllFailed(cs) /\ Len(cs) = 3
                     \/ /\ \E k \in 0..2 : FailsThenSucceeds(cs, k)
                        /\ IF ReadFailed(r)
                           THEN HasError(r) /\ tfstate[r] = NoRecord
                           ELSE /\ ~HasError(r)
                                /\ tfstate[r] # NoRecord
                                /\ tfstate[r].node_image = WantedImage(r)

\* C1 witness: two failed attempts, a third that succeeded, no error, the
\* record saved
C1_Witness ==
    \E r \in Resources :
        /\ Returned(r, "Create")
        /\ FailsThenSucceeds(CreateCalls(r), 2)
        /\ ~HasError(r)
        /\ tfstate[r] # NoRecord
        /\ tfstate[r].node_image = WantedImage(r)

\* C2: in Create, the first engine call is a create; every later create is
\* preceded by exactly one delete of the same cluster name and then the
\* backoff wait, which follow a failed create; a cleanup delete, failed or
\* not, is followed by the wait and the next create, and its failure is
\* never an error diagnostic.
C2_CleanupBeforeRetry ==
    \A r \in Resources :
        op[r] = "Create" =>
            LET lc == LoopCalls(r)
            IN /\ \A i \in 1..Len(lc) :
                     /\ lc[i].call = "Create" =>
                           \/ i = 1
                           \/ /\ i >= 4
                              /\ lc[i - 1].call = "Sleep"
                              /\ lc[i - 2].call = "Delete"
                              /\ lc[i - 2].name = lc[i].name
                              /\ lc[i - 2].arg = ""
                              /\ lc[i - 3].call = "Create"
                              /\ ~lc[i - 3].ok
                     /\ lc[i].call = "Delete" =>
                           /\ i >= 2
                           /\ lc[i - 1].call = "Create"
                           /\ i + 1 <= Len(lc)
                           /\ lc[i + 1].call = "Sleep"
                     /\ lc[i].call = "Sleep" =>
                           /\ i >= 3
                           /\ lc[i - 1].call = "Delete"
                           /\ pc[r] = "returned" => i + 1 <= Len(lc)
               /\ \A i \in 1..Len(diags[r]) :
                     diags[r][i].summary # "Failed to delete cluster during retry"
               /\ (pc[r] = "returned" /\ Len(lc) > 0 /\ lc[Len(lc)].ok
                      /\ ~ReadFailed(r)) => ~HasError(r)

\* C2 witness: a Create that returned without error after two retries whose
\* cleanup deletes both failed
C2_Witness ==
    \E r \in Resources :
        /\ Returned(r, "Create")
        /\ ~HasError(r)
        /\ Len(LoopCalls(r)) = 7
        /\ ~LoopCalls(r)[2].ok
        /\ ~LoopCalls(r)[5].ok
        /\ Len(warns[r]) = 2

\* C3: when all 3 create attempts failed, Create returns with one error
\* diagnostic naming the cluster and 3 attempts, has read nothing and has
\* saved no record; and Create gives up only after 3 failed attempts.
C3_AllAttemptsFail ==
    \A r \in Resources :
        (Returned(r, "Create") /\ AllFailed(CreateCalls(r))) =>
            /\ Len(CreateCalls(r)) = 3
            /\ Len(diags[r]) = 1
            /\ diags[r][1].summary = "Error creating Kind cluster"
            /\ diags[r][1].name = r
            /\ diags[r][1].attempts = 3
            /\ CallsOf(r, {"KubeConfig", "Getwd", "ExportKubeConfig"}) = <<>>
            /\ tfstate[r] = NoRecord

\* C3 witness: a Create that returned after three failed attempts
C3_Witness ==
    \E r \in Resources :
        /\ Returned(r, "Create")
        /\ AllFailed(CreateCalls(r))
        /\ Len(CreateCalls(r)) = 3
        /\ HasError(r)

\* C4: after a Create that returned without error, the saved record's
\* node_image is the user's image when one is given and the pinned default
\* otherwise, its id is name-image, and every create call was given that
\* image.
C4_EffectiveImage ==
    \A r \in Resources :
        /\ (Returned(r, "Create") /\ ~HasError(r)) =>
              /\ tfstate[r] # NoRecord
              /\ tfstate[r].node_image = WantedImage(r)
              /\ tfstate[r].id = r \o "-" \o WantedImage(r)
              /\ tfstate[r].name = r
        /\ op[r] = "Create" =>
              \A i \in 1..Len(CreateCalls(r)) :
                  /\ CreateCalls(r)[i].arg = WantedImage(r)
                  /\ CreateCalls(r)[i].name = r

\* C4 witness: a successful Create without a user image, after a retry,
\* with the default image saved
C4_Witness ==
    \E r \in Resources :
        /\ Returned(r, "Create")
        /\ ~HasError(r)
        /\ tfconfig[r].node_image = ""
        /\ tfstate[r] # NoRecord
        /\ tfstate[r].node_image = defaultNodeImage
        /\ Len(CreateCalls(r)) = 2

(***************************************************************************)
(* Properties of Delete                                                    *)
(***************************************************************************)
\* Delete has left the select with its outcome in err
AfterSelect(r) ==
    /\ op[r] = "Delete"
    /\ pc[r] \in {"selected", "load", "write", "returned"}

FileCalls(r) == CallsOf(r, {"LoadFromFile", "WriteToFile"})

\* C5 as stated: whenever the goroutine sent its result while
\* deleteCtx.Done() was still open, Delete's outcome is that result (nil, or
\* the engine's error) and never the timeout error.
C5_FirstToCompleteWins ==
    \A r \in Resources :
        \A i \in 1..Len(calls[r]) :
            (AfterSelect(r) /\ calls[r][i].call = "errChan<-"
                /\ calls[r][i].arg = "open")
            => /\ loc[r].err # errDeleteTimeout
               /\ (loc[r].err = Nil) <=> calls[r][i].ok

\* C6 as stated: against an engine whose deletion call never returns, Delete
\* has the timeout error only when the timer of the delete timeout has
\* expired.
C6_TimeoutOnlyAfterTimer ==
    \A r \in Resources :
        (AfterSelect(r) /\ gpc[r] \in {"call", "hung"}
            /\ loc[r].err = errDeleteTimeout)
        => done[r] = "deadline"

\* C7: a Delete whose outcome is the timeout error or the engine's error
\* makes no kubeconfig load or write, returns with the error diagnostic
\* naming the cluster, and the state record is still there.
C7_NoCleanupAfterError ==
    \A r \in Resources :
        (AfterSelect(r) /\ loc[r].err # Nil) =>
            /\ FileCalls(r) = <<>>
            /\ pc[r] \in {"selected", "returned"}
            /\ tfstate[r] # NoRecord
            /\ pc[r] = "returned" =>
                  /\ Len(diags[r]) = 1
                  /\ diags[r][1].summary = "Error deleting Kind cluster"
                  /\ diags[r][1].name = loc[r].name
                  /\ diags[r][1].cause = loc[r].err

\* C7 witness: a Delete that returned with the timeout error while the
\* engine call had not returned
C7_Witness ==
    \E r \in Resources :
        /\ Returned(r, "Delete")
        /\ loc[r].err = errDeleteTimeout
        /\ gpc[r] = "hung"
        /\ HasError(r)
        /\ FileCalls(r) = <<>>

\* the engine deletion succeeded and Delete took its result
DeletionSucceeded(r) ==
    /\ AfterSelect(r)
    /\ loc[r].err = Nil
    /\ \E i \in 1..Len(calls[r]) : calls[r][i].call = "Delete" /\ calls[r][i].ok

\* C8: after a successful engine deletion Delete returns without error
\* diagnostics whatever the loads and writes returned, having tried to load
\* the default kubeconfig and then, when a path is recorded, the kubeconfig
\* at that path; a write is tried only after a load that succeeded.
C8_CleanupBestEffort ==
    \A r \in Resources :
        DeletionSucceeded(r) =>
            /\ ~HasError(r)
            /\ pc[r] = "returned" =>
                  LET loads == CallsOf(r, {"LoadFromFile"})
                  IN /\ Len(loads) = IF loc[r].kubeconfigPath = "" THEN 1 ELSE 2
                     /\ loads[1].arg = "~/.kube/config"
                     /\ loc[r].kubeconfigPath # "" =>
                           loads[2].arg = loc[r].kubeconfigPath
            /\ \A i \in 1..Len(FileCalls(r)) :
                  FileCalls(r)[i].call = "WriteToFile" =>
                      /\ i >= 2
                      /\ FileCalls(r)[i - 1].call = "LoadFromFile"
                      /\ FileCalls(r)[i - 1].ok
                      /\ FileCalls(r)[i - 1].arg = FileCalls(r)[i].arg

\* C8 witness: the default kubeconfig could not be loaded, the custom one
\* was loaded and could not be written, and Delete returned without error
C8_Witness ==
    \E r \in Resources :
        /\ Returned(r, "Delete")
        /\ DeletionSucceeded(r)
        /\ ~HasError(r)
        /\ Len(FileCalls(r)) = 3
        /\ ~FileCalls(r)[1].ok
        /\ FileCalls(r)[2].ok
        /\ FileCalls(r)[2].arg = CustomPath
        /\ ~FileCalls(r)[3].ok
        /\ Len(warns[r]) = 2

\* C9 as stated: after a Delete whose engine deletion succeeded and whose
\* loads and writes all succeeded, neither the default kubeconfig nor the
\* one at the recorded path holds a context, user or cluster entry keyed
\* kind-N, whatever entries they held before.
C9_NoEntryLeft ==
    \A r \in Resources :
        (Returned(r, "Delete") /\ DeletionSucceeded(r)
            /\ \A i \in 1..Len(FileCalls(r)) : FileCalls(r)[i].ok)
        => \A p \in {defaultKubeconfigPath, loc[r].kubeconfigPath} \ {""} :
               ContextName(loc[r].name) \notin
                   (files[p].Contexts \cup files[p].AuthInfos) \cup files[p].Clusters

\* a step of r's credential cleanup
CleanupStep(r) ==
    op[r] = "Delete" /\ pc[r] \in {"load", "write"} /\ calls'[r] # calls[r]

\* C10: a step of the credential cleanup for cluster N sets a file's
\* current-context marker to "" when the marker is kind-N and the step
\* removes the kind-N context from that file, and leaves the marker as it
\* is in every other case.
C10_CurrentContext ==
    [][\A r \in Resources : \A p \in Paths :
          CleanupStep(r) =>
             LET removed == /\ ContextName(loc[r].name) \in files[p].Contexts
                            /\ ContextName(loc[r].name) \notin files'[p].Contexts
             IN IF files[p].CurrentContext = ContextName(loc[r].name) /\ removed
                THEN files'[p].CurrentContext = ""
                ELSE files'[p].CurrentContext = files[p].CurrentContext]_vars

\* C10 witness: both files were rewritten; the default one, whose marker
\* named the foreign context, kept it, and the custom one, whose marker
\* named kind-N, has it cleared
C10_Witness ==
    \E r \in Resources :
        /\ Returned(r, "Delete")
        /\ Len(CallsOf(r, {"WriteToFile"})) = 2
        /\ \A i \in 1..4 : FileCalls(r)[i].ok
        /\ files[defaultKubeconfigPath].CurrentContext = OtherContext
        /\ files[loc[r].kubeconfigPath].CurrentContext = ""
        /\ ContextName(r) \notin files[defaultKubeconfigPath].Contexts
        /\ ContextName(r) \notin files[loc[r].kubeconfigPath].Contexts

(***************************************************************************)
(* Two resource instances deleted concurrently                             *)
(*                                                                         *)
(* The host engine runs the handlers of different resource instances in    *)
(* parallel.  SpecConcurrent starts where two instances have been created  *)
(* and their records saved, and runs their Deletes interleaved.            *)
(***************************************************************************)
Instances == {"a", "b"}

PathsConcurrent ==
    {defaultKubeconfigPath, CustomPath} \cup {ExportPath(n) : n \in Instances}

\* part_003:178-192, 407-453  the record a successful Create of a plain
\* configuration saves for instance n with kubeconfig path path
SavedRecord(n, path) ==
    [NullModel EXCEPT !.name = n,
                      !.node_image = defaultNodeImage,
                      !.id = ResourceID(n, defaultNodeImage),
                      !.kubeconfig_path = path,
                      !.kubeconfig = "kc1",
                      !.client_certificate = CertData("kc1"),
                      !.client_key = KeyData("kc1"),
                      !.cluster_ca_certificate = CAData("kc1"),
                      !.endpoint = Host("kc1"),
                      !.completed = TRUE]

\* a kubeconfig holding the entries of every instance and the foreign ones
SharedDoc(current) ==
    [Contexts |-> {ContextName(n) : n \in Instances} \cup {OtherContext},
     AuthInfos |-> {ContextName(n) : n \in Instances} \cup {OtherContext},
     Clusters |-> {ContextName(n) : n \in Instances} \cup {OtherContext},
     CurrentContext |-> current]

\* each instance was created with the custom path or with none (and then
\* has the exported path recorded); every kubeconfig file holds the entries
\* of both clusters
InitConcurrent ==
    /\ \E custom \in [Instances -> BOOLEAN] :
          /\ tfconfig = [r \in Instances |->
                [node_image |-> "",
                 kubeconfig_path |-> IF custom[r] THEN CustomPath ELSE "",
                 wait_for_ready |-> FALSE, kind_config |-> NullList]]
          /\ tfstate = [r \in Instances |->
                SavedRecord(r, IF custom[r] THEN CustomPath ELSE ExportPath(r))]
    /\ \E current \in {ContextName(n) : n \in Instances} \cup {OtherContext} :
          files = [q \in PathsConcurrent |-> SharedDoc(current)]
    /\ engine = Instances
    /\ op = [r \in Instances |-> "none"]
    /\ pc = [r \in Instances |-> "idle"]
    /\ loc = [r \in Instances |-> InitLoc]
    /\ diags = [r \in Instances |-> <<>>]
    /\ warns = [r \in Instances |-> <<>>]
    /\ calls = [r \in Instances |-> <<>>]
    /\ gpc = [r \in Instances |-> "none"]
    /\ errChan = [r \in Instances |-> <<>>]
    /\ done = [r \in Instances |-> "open"]
    /\ args = NoCall
    /\ ret = Pending

NextConcurrent ==
    \E r \in Instances :
        \/ DeleteBegin(r)
        \/ GoEngineDelete(r)
        \/ GoEngineHang(r)
        \/ GoSend(r)
        \/ TimerFires(r)
        \/ ParentCancelled(r)
        \/ DeleteSelect(r)
        \/ DeleteResult(r)
        \/ RemoveContextLoad(r)
        \/ RemoveContextWrite(r)
        \/ HostAck(r)

SpecConcurrent == InitConcurrent /\ [][NextConcurrent]_vars

\* Delete of r returned, reporting success, with every load and write of
\* its cleanup succeeding
CleanDelete(r) ==
    /\ Returned(r, "Delete")
    /\ DeletionSucceeded(r)
    /\ ~HasError(r)
    /\ \A i \in 1..Len(FileCalls(r)) : FileCalls(r)[i].ok

\* C11: the cleanup takes no lock and does not look at the file again
\* before writing: a successful write of r's cleanup stores the document r
\* loaded earlier, less r's own entries, so the entries of another cluster
\* are in the file after the write exactly if they were in r's snapshot,
\* whatever the file held just before the write.  (The lost removal itself
\* is the state C11_Witness.)
C11_WriteOfSnapshot ==
    [][\A r \in Instances :
          (pc[r] = "write" /\ calls'[r] # calls[r]
              /\ calls'[r][Len(calls'[r])].ok)
          => LET p == loc[r].configPath
                 snap == loc[r].config
                 own == {ContextName(r)}
             IN /\ files'[p].Contexts = snap.Contexts \ own
                /\ files'[p].AuthInfos = snap.AuthInfos \ own
                /\ files'[p].Clusters = snap.Clusters \ own
                /\ \A q \in PathsConcurrent \ {p} : files'[q] = files[q]]_vars

\* C11 witness: both Deletes have returned reporting success, every load
\* and write succeeded, and the default kubeconfig still holds the context,
\* user and cluster entries of one of the two clusters
C11_Witness ==
    /\ \A r \in Instances : CleanDelete(r)
    /\ \E n \in Instances :
          ContextName(n) \in
              (files[defaultKubeconfigPath].Contexts
                  \cap files[defaultKubeconfigPath].AuthInfos)
                  \cap files[defaultKubeconfigPath].Clusters

(***************************************************************************)
(* The goroutine after a timeout                                           *)
(***************************************************************************)
\* C12 as stated: when Delete has returned with the timeout error, its
\* goroutine is not left inside an engine call that never returns (it has
\* ended, or it is in a call or a send that still completes).
C12_NoOrphan ==
    \A r \in Resources :
        (Returned(r, "Delete") /\ loc[r].err = errDeleteTimeout)
        => gpc[r] # "hung"

(***************************************************************************)
(* Properties of Read                                                      *)
(***************************************************************************)
ReadCallNames == {"KubeConfig", "Getwd", "ExportKubeConfig"}

\* the calls of a read, in order, up to the first that failed
ReadCallsInOrder(cs) ==
    /\ Len(cs) <= 3
    /\ \A i \in 1..Len(cs) :
          /\ cs[i].call = <<"KubeConfig", "Getwd", "ExportKubeConfig">>[i]
          /\ i < Len(cs) => cs[i].ok

RecordedPath(r) ==
    IF op[r] = "Create" THEN tfconfig[r].kubeconfig_path
    ELSE tfstate[r].kubeconfig_path

\* r's handler is in a read past the export decision and has not saved
PastExport(r) ==
    /\ op[r] \in {"Create", "Read"}
    /\ \/ pc[r] \in {"parse", "save"}
       \/ pc[r] = "returned" /\ ReadFailed(r)

\* C14: a read makes an export call only when no kubeconfig path is
\* recorded; once past the export with no path recorded it has made exactly
\* one successful export, to <cwd>/<name>-config, and holds that path as
\* kubeconfig_path; with a path recorded it has made no working-directory
\* or export call and holds the recorded path; and the save stores the path
\* the read holds.
C14_ExportOnlyWithoutPath ==
    /\ [](\A r \in Resources :
            PastExport(r) =>
               LET exports == CallsOf(r, {"ExportKubeConfig"})
                   target == Cwd \o "/" \o loc[r].data.name \o "-config"
               IN /\ exports # <<>> => RecordedPath(r) = ""
                  /\ Len(exports) <= 1
                  /\ (pc[r] \in {"parse", "save"} /\ RecordedPath(r) = "") =>
                        /\ Len(exports) = 1
                        /\ exports[1].ok
                        /\ exports[1].arg = target
                        /\ exports[1].name = loc[r].data.name
                        /\ loc[r].data.kubeconfig_path = target
                  /\ RecordedPath(r) # "" =>
                        /\ CallsOf(r, {"Getwd", "ExportKubeConfig"}) = <<>>
                        /\ loc[r].data.kubeconfig_path = RecordedPath(r))
    /\ [][\A r \in Resources :
            (pc[r] = "save" /\ pc'[r] # "save") =>
                tfstate'[r].kubeconfig_path = loc[r].data.kubeconfig_path]_vars

\* C14 witness: a Read of a record without a path is about to save the
\* exported path
C14_Witness ==
    \E r \in Resources :
        /\ op[r] = "Read"
        /\ pc[r] = "save"
        /\ tfstate[r].kubeconfig_path = ""
        /\ CallsOf(r, {"ExportKubeConfig"}) # <<>>
        /\ loc[r].data.kubeconfig_path = ExportPath(loc[r].data.name)

\* the record holds a fetched kubeconfig and exactly its coordinates
CoordinatesOf(rec, k) ==
    /\ rec.kubeconfig = k
    /\ rec.client_certificate = "cert:" \o k
    /\ rec.client_key = "key:" \o k
    /\ rec.cluster_ca_certificate = "ca:" \o k
    /\ rec.endpoint = "https://" \o k
    /\ rec.completed

\* C15: the save step of Create and of Read stores a record with
\* completed = true whose kubeconfig is the document of the one kubeconfig
\* fetch of that invocation and whose certificate, key, CA and endpoint are
\* the coordinates of that same document; and every record in the state
\* other than a freshly imported one is such a record.
C15_SavedRecordComplete ==
    /\ [][\A r \in Resources :
            (op[r] \in {"Create", "Read"} /\ tfstate'[r] # tfstate[r]) =>
               /\ Len(CallsOf(r, {"KubeConfig"})) = 1
               /\ loc[r].kconfig \in GoodKubeconfigs
               /\ CoordinatesOf(tfstate'[r], loc[r].kconfig)]_vars
    /\ [](\A r \in Resources :
            tfstate[r] # NoRecord =>
               \/ tfstate[r] = [NullModel EXCEPT !.id = ImportID]
               \/ CoordinatesOf(tfstate[r], tfstate[r].kubeconfig))

\* C15 witness: a Read has saved a record with the second kubeconfig and
\* its coordinates
C15_Witness ==
    \E r \in Resources :
        /\ Returned(r, "Read")
        /\ ~HasError(r)
        /\ tfstate[r] # NoRecord
        /\ tfstate[r].completed
        /\ tfstate[r].kubeconfig = "kc2"
        /\ tfstate[r].endpoint = "https://kc2"

\* C16: a Read of a record that a read has completed before makes no
\* export call, and its save leaves name, node_image, id, kubeconfig_path,
\* kind_config and wait_for_ready as they were; when the engine hands out
\* the same kubeconfig as before, the saved record is the record as it was.
C16_ReadIdempotent ==
    [][\A r \in Resources :
          (op[r] = "Read" /\ tfstate[r].completed /\ pc[r] # "returned") =>
             /\ CallsOf(r, {"Getwd", "ExportKubeConfig"}) = <<>>
             /\ SelectSeq(calls'[r],
                    LAMBDA c : c.call \in {"Getwd", "ExportKubeConfig"}) = <<>>
             /\ tfstate'[r] # tfstate[r] =>
                   /\ tfstate'[r].name = tfstate[r].name
                   /\ tfstate'[r].node_image = tfstate[r].node_image
                   /\ tfstate'[r].id = tfstate[r].id
                   /\ tfstate'[r].kubeconfig_path = tfstate[r].kubeconfig_path
                   /\ tfstate'[r].kind_config = tfstate[r].kind_config
                   /\ tfstate'[r].wait_for_ready = tfstate[r].wait_for_ready
             /\ (pc[r] = "save" /\ loc[r].kconfig = tfstate[r].kubeconfig) =>
                   tfstate'[r] = tfstate[r]]_vars

\* C16 witness: a second Read of an imported record (whose path the first
\* Read exported) has returned without error and without an export
C16_Witness ==
    \E r \in Resources :
        /\ Returned(r, "Read")
        /\ ~HasError(r)
        /\ tfstate[r].id = ImportID
        /\ tfstate[r].kubeconfig_path = ExportPath("")
        /\ tfstate[r].completed
        /\ Len(calls[r]) = 1
        /\ calls[r][1].call = "KubeConfig"

(***************************************************************************)
(* Properties of Update                                                    *)
(***************************************************************************)
\* the fields of a record that come from the user's specification
SpecFields(rec) ==
    <<rec.name, rec.node_image, rec.kind_config, rec.wait_for_ready>>

\* C17: an Update that returned has the one error "Update not supported"
\* and has made no call; the step of an Update and the host's taking of
\* its response leave the state record, the kubeconfig files and the engine
\* as they are; the engine's create is called only by Create; and no step
\* changes the specification fields of a record that is there before and
\* after it (they change only by the record being removed and made anew).
C17_NoUpdatePath ==
    /\ [](\A r \in Resources :
            /\ Returned(r, "Update") =>
                  /\ Len(diags[r]) = 1
                  /\ diags[r][1].summary = "Update not supported"
                  /\ calls[r] = <<>>
            /\ CallsOf(r, {"Create"}) # <<>> => op[r] = "Create")
    /\ [][\A r \in Resources :
            /\ (op[r] = "Update" \/ op'[r] = "Update") =>
                  /\ tfstate' = tfstate
                  /\ files' = files
                  /\ engine' = engine
            /\ (tfstate[r] # NoRecord /\ tfstate'[r] # NoRecord) =>
                  SpecFields(tfstate'[r]) = SpecFields(tfstate[r])]_vars

\* C17 witness: an Update of a created cluster has returned with its error
C17_Witness ==
    \E r \in Resources :
        /\ Returned(r, "Update")
        /\ HasError(r)
        /\ tfstate[r] # NoRecord
        /\ tfstate[r].name = r
        /\ r \in engine

(***************************************************************************)
(* The decoder and the normalizer called on their own                      *)
(*                                                                         *)
(* One call of one function: args is the function and its argument, ret    *)
(* what it returned.  The controller's variables stay as constructed.      *)
(***************************************************************************)
\* port numbers on both sides of the int32 boundaries, zero, and one beyond
\* 2^32 whose low 32 bits are a plausible port
PortValues ==
    {GoInt(0, 0), GoInt(0, 1), GoInt(0, 8080), MaxInt32, GoInt(1, 0), GoInt(2, 80),
     GoInt(-1, 2147483647), MinInt32, GoInt(-2, 2147483647)}

\* schema_kind_config.go:139-166  one extra_port_mappings element
PortMappingObject(containerPort, hostPort) ==
    AttrObject([container_port |-> AttrInt64(containerPort),
                host_port |-> AttrInt64(hostPort),
                listen_address |-> AttrNull("String"),
                protocol |-> AttrString("TCP")])

\* schema_kind_config.go:86-168  one node block with one port mapping
NodeObject(hostPort) ==
    AttrObject([role |-> AttrString("control-plane"),
                image |-> AttrNull("String"),
                labels |-> AttrNull("Map"),
                extra_mounts |-> AttrNull("List"),
                kubeadm_config_patches |-> AttrNull("List"),
                extra_port_mappings |->
                    AttrList(<<PortMappingObject(GoInt(0, 80), hostPort)>>)])

\* schema_kind_config.go:169-206  the networking block, a single nested
\* block and so an object
NetworkingObject(apiServerPort) ==
    AttrObject([api_server_address |-> AttrString("127.0.0.1"),
                api_server_port |-> AttrInt64(apiServerPort),
                disable_default_cni |-> AttrBool(TRUE),
                ip_family |-> AttrString("ipv4"),
                kube_proxy_mode |-> AttrNull("String"),
                pod_subnet |-> AttrString("10.244.0.0/16"),
                service_subnet |-> AttrNull("String"),
                dns_search |-> AttrNull("List")])

\* the networking block of a plan: absent, or set with some api_server_port
NetworkingValues ==
    {AttrNull("Object")} \cup {NetworkingObject(p) : p \in PortValues}

\* schema_kind_config.go:70-74  runtime_config: absent, or two keys that
\* the rewrite of "_" to "/" makes equal
RuntimeConfigValues ==
    {AttrNull("Map"),
     AttrMap([k \in {<<"a", "_", "b">>, <<"a", "/", "b">>} |->
                 IF k[2] = "_" THEN AttrString("true") ELSE AttrString("false")])}

\* schema_kind_config.go:75-79  feature_gates: absent, or three gates
FeatureGateValues ==
    {AttrNull("Map"),
     AttrMap([GateA |-> AttrString("TRUE"), GateB |-> AttrString("yes"),
              GateC |-> AttrString("false")])}

\* schema_kind_config.go:32-85  one kind_config block
KindConfigObject(hostPort, networking, runtimeConfig, featureGates) ==
    AttrObject([kind |-> AttrString("Cluster"),
                api_version |-> AttrString("kind.x-k8s.io/v1alpha4"),
                node |-> AttrList(<<NodeObject(hostPort)>>),
                networking |-> networking,
                containerd_config_patches |-> AttrNull("List"),
                runtime_config |-> runtimeConfig,
                feature_gates |-> featureGates])

\* a kind_config block with one node block for each of hostPorts
KindConfigNodes(hostPorts) ==
    AttrObject([kind |-> AttrString("Cluster"),
                api_version |-> AttrString("kind.x-k8s.io/v1alpha4"),
                node |-> AttrList([i \in 1..Len(hostPorts) |->
                                     NodeObject(hostPorts[i])]),
                networking |-> AttrNull("Object"),
                containerd_config_patches |-> AttrNull("List"),
                runtime_config |-> AttrNull("Map"),
                feature_gates |-> AttrNull("Map")])

\* the most node blocks of a configuration
MaxNodes == 3

\* the kind_config lists a plan can hold
KindConfigLists ==
    {AttrNull("List"), AttrUnknown("List"), AttrList(<<>>)} \cup
    {AttrList(<<KindConfigObject(h, n, rc, fg)>>) :
        h \in PortValues, n \in NetworkingValues,
        rc \in RuntimeConfigValues, fg \in FeatureGateValues} \cup
    {AttrList(<<KindConfigNodes(hp)>>) :
        hp \in UNION {[1..n -> {GoInt(0, 80), GoInt(0, 8080)}] : n \in 2..MaxNodes}}

\* a networking map as a caller of the normalizer builds it
NetworkingMap(apiServerPort) ==
    [api_server_address |-> GoString("127.0.0.1"),
     api_server_port |-> GoIntValue(apiServerPort),
     ip_family |-> GoString("ipv6"),
     kube_proxy_mode |-> GoString("nftables")]

\* a port mapping map as a caller of the normalizer builds it
PortMappingMap(containerPort, hostPort) ==
    [container_port |-> GoIntValue(containerPort),
     host_port |-> GoIntValue(hostPort),
     protocol |-> GoString("UDP")]

\* part_004:124  a kind_config map whose networking is a one-element slice
KindConfigMap(apiServerPort) ==
    [kind |-> GoString("Cluster"),
     networking |-> GoSlice(<<GoMap(NetworkingMap(apiServerPort))>>)]

\* runtime_config keys, each the sequence of its bytes: with one and two
\* underscores, with a slash, and with neither
RuntimeKeys ==
    {<<"a", "_", "b">>, <<"a", "/", "b">>, <<"a", "_", "c">>, <<"a", "b">>,
     <<"a", "_", "b", "_", "c">>}

\* part_004:149-162  the runtime_config maps over those keys
RuntimeConfigMaps ==
    UNION {[keys -> {GoString("true"), GoString("false")}] :
              keys \in SUBSET RuntimeKeys}

\* the feature_gates values: spellings of true, other strings, and a value
\* that is no string
GateValues ==
    {GoString(v) : v \in {"true", "True", "TRUE", "tRuE", "false", "yes", "1", ""}}
    \cup {GoBool(TRUE)}

\* part_004:163-178  the feature_gates maps with one and two gates
FeatureGateMaps ==
    {[FeatureA |-> v] : v \in GateValues}
    \cup {[FeatureA |-> v, FeatureB |-> w] : v, w \in GateValues}

\* a kind_config map with only runtime_config or only feature_gates set
RuntimeConfigMap(runtimeConfig) ==
    [kind |-> GoString("Cluster"), runtime_config |-> GoMap(runtimeConfig)]
FeatureGatesMap(featureGates) ==
    [kind |-> GoString("Cluster"), feature_gates |-> GoMap(featureGates)]

\* the strings given for an enum field: the members of its allow-list, a
\* wrong-case spelling, the empty string and a string of no list
RoleStrings == {"control-plane", "worker", "Worker", "", "master"}
PropagationStrings == {"None", "HostToContainer", "Bidirectional", "none", "", "rshared"}
ProtocolStrings == {"TCP", "UDP", "SCTP", "tcp", "", "ICMP"}
IPFamilyStrings == {"ipv4", "ipv6", "dual", "IPv4", "", "ipv5"}
KubeProxyModeStrings == {"iptables", "ipvs", "none", "IPVS", "", "nftables"}

\* part_006:86-128  a node map without mounts and port mappings
NodeMap(role) == [role |-> GoString(role), image |-> GoString("kindest/node:v1")]

\* part_006:184-206  a mount map
MountMap(propagation) ==
    [container_path |-> GoString("/data"), host_path |-> GoString("/tmp/data"),
     read_only |-> GoBool(TRUE), propagation |-> GoString(propagation)]

\* part_006:209-246  a port mapping map with ports in range
ProtocolMap(protocol) ==
    [container_port |-> GoIntValue(GoInt(0, 80)),
     host_port |-> GoIntValue(GoInt(0, 8080)),
     protocol |-> GoString(protocol)]

\* part_006:131-181  a networking map with a port in range
NetworkingEnumMap(ipFamily, kubeProxyMode) ==
    [api_server_port |-> GoIntValue(GoInt(0, 6443)),
     ip_family |-> GoString(ipFamily),
     kube_proxy_mode |-> GoString(kubeProxyMode)]

\* part_002:62-94, part_004:56-88  the values a helper finds under a key:
\* nil, and values of every dynamic type the tables use and of int64
HelperValues ==
    {GoNil, GoString("value"), GoString(""), GoString("true"),
     GoIntValue(GoInt(0, 42)), GoIntValue(GoInt(0, 0)), GoIntValue(GoInt(1, 0)),
     GoBool(TRUE), GoBool(FALSE), GoFloat64("1.5"), GoSlice(<<>>),
     [k |-> "int64", v |-> GoInt(0, 42)]}

\* the maps a helper reads: empty (or nil), with the key, with another key
HelperMaps ==
    {<<>>} \cup {[key |-> v] : v \in HelperValues}
           \cup {[other |-> v] : v \in HelperValues}

\* part_004:106-119  a kind_config map with the node maps of roles
NodesMap(roles) ==
    [kind |-> GoString("Cluster"),
     node |-> GoSlice([i \in 1..Len(roles) |-> GoMap(NodeMap(roles[i]))])]

\* the role sequences of up to MaxNodes node blocks
RoleSequences ==
    UNION {[1..n -> {"control-plane", "worker", "Worker"}] : n \in 0..MaxNodes}

\* the kind_config maps handed to flattenKindConfig
KindConfigMaps ==
    {KindConfigMap(p) : p \in PortValues}
    \cup {RuntimeConfigMap(rc) : rc \in RuntimeConfigMaps}
    \cup {FeatureGatesMap(fg) : fg \in FeatureGateMaps}
    \cup {NodesMap(roles) : roles \in RoleSequences}

\* part_002:160-243  attribute trees.  The leaves: a null, an unknown, a
\* string, a bool, an int64, a float64, a number and a value of a type the
\* decoder has no case for
AttrLeaves ==
    {AttrNull("String"), AttrUnknown("List"), AttrString("a"), AttrBool(TRUE),
     AttrInt64(GoInt(0, 42)), AttrKnown("Float64", "1.5"),
     AttrKnown("Number", "42.5"), AttrKnown("Dynamic", "d")}

\* the most elements of a list, set, map or object of a tree
MaxElements == 2

\* the lists, sets, maps and objects of up to MaxElements of elems
Collections(elems) ==
    LET seqs == UNION {[1..n -> elems] : n \in 0..MaxElements}
        maps == UNION {[keys -> elems] : keys \in SUBSET {"k1", "k2"}}
    IN {AttrKnown(t, seq) : t \in {"List", "Set"}, seq \in seqs}
       \cup {AttrKnown(t, m) : t \in {"Map", "Object"}, m \in maps}

\* trees one level deep over all leaves, trees two levels deep over a leaf
\* and one collection of each type
AttrTrees ==
    AttrLeaves \cup Collections(AttrLeaves) \cup
    Collections({AttrString("a"), AttrNull("Object"),
                 AttrList(<<AttrString("a"), AttrNull("String")>>),
                 AttrKnown("Set", <<AttrInt64(GoInt(0, 42))>>),
                 AttrMap([k1 |-> AttrBool(TRUE)]),
                 AttrObject([k1 |-> AttrUnknown("String"), k2 |-> AttrString("b")])})

\* the calls under test
PureCalls ==
    {[fn |-> "parseKindConfigFromFramework", in |-> l] : l \in KindConfigLists}
    \cup {[fn |-> "flattenKindConfig", in |-> m] : m \in KindConfigMaps}
    \cup {[fn |-> "flattenKindConfigNetworking", in |-> NetworkingMap(p)] :
             p \in PortValues}
    \cup {[fn |-> "flattenKindConfigExtraPortMappings",
           in |-> PortMappingMap(c, h)] : c, h \in PortValues}
    \cup {[fn |-> "flattenKindConfigNetworking", in |-> NetworkingEnumMap(f, m)] :
             f \in IPFamilyStrings, m \in KubeProxyModeStrings}
    \cup {[fn |-> "flattenKindConfigExtraPortMappings", in |-> ProtocolMap(p)] :
             p \in ProtocolStrings}
    \cup {[fn |-> fn, in |-> [m |-> m, key |-> "key"]] :
             fn \in {"getString", "getInt", "getBool"}, m \in HelperMaps}
    \cup {[fn |-> "attrValueToAny", in |-> tree] : tree \in AttrTrees}
    \cup {[fn |-> "flattenKindConfigNodes", in |-> NodeMap(role)] :
             role \in RoleStrings}
    \cup {[fn |-> "flattenKindConfigExtraMounts", in |-> MountMap(p)] :
             p \in PropagationStrings}

\* the call returns out
Result(out) == [returned |-> TRUE, out |-> out]

controllerVars ==
    <<tfconfig, engine, files, tfstate, op, pc, loc, diags, warns, calls, gpc,
      errChan, done>>

InitPure ==
    /\ args \in PureCalls
    /\ ret = Pending
    /\ tfconfig = [r \in Resources |->
          [node_image |-> "", kubeconfig_path |-> "", wait_for_ready |-> FALSE,
           kind_config |-> NullList]]
    /\ files = [q \in Paths |-> TypicalDoc("a")]
    /\ engine = {}
    /\ tfstate = [r \in Resources |-> NoRecord]
    /\ op = [r \in Resources |-> "none"]
    /\ pc = [r \in Resources |-> "idle"]
    /\ loc = [r \in Resources |-> InitLoc]
    /\ diags = [r \in Resources |-> <<>>]
    /\ warns = [r \in Resources |-> <<>>]
    /\ calls = [r \in Resources |-> <<>>]
    /\ gpc = [r \in Resources |-> "none"]
    /\ errChan = [r \in Resources |-> <<>>]
    /\ done = [r \in Resources |-> "open"]

\* utils.go:155-184
CallParseKindConfigFromFramework ==
    /\ args.fn = "parseKindConfigFromFramework"
    /\ ~ret.returned
    /\ \E res \in parseKindConfigFromFramework(args.in) : ret' = Result(res)
    /\ UNCHANGED <<args, controllerVars>>

\* part_006:35-83
CallFlattenKindConfig ==
    /\ args.fn = "flattenKindConfig"
    /\ ~ret.returned
    /\ \E res \in flattenKindConfig(args.in) : ret' = Result(res)
    /\ UNCHANGED <<args, controllerVars>>

\* part_006:131-181
CallFlattenKindConfigNetworking ==
    /\ args.fn = "flattenKindConfigNetworking"
    /\ ~ret.returned
    /\ ret' = Result(flattenKindConfigNetworking(args.in))
    /\ UNCHANGED <<args, controllerVars>>

\* part_006:209-246
CallFlattenKindConfigExtraPortMappings ==
    /\ args.fn = "flattenKindConfigExtraPortMappings"
    /\ ~ret.returned
    /\ ret' = Result(flattenKindConfigExtraPortMappings(args.in))
    /\ UNCHANGED <<args, controllerVars>>

\* part_006:86-128
CallFlattenKindConfigNodes ==
    /\ args.fn = "flattenKindConfigNodes"
    /\ ~ret.returned
    /\ ret' = Result(flattenKindConfigNodes(args.in))
    /\ UNCHANGED <<args, controllerVars>>

\* part_006:184-206
CallFlattenKindConfigExtraMounts ==
    /\ args.fn = "flattenKindConfigExtraMounts"
    /\ ~ret.returned
    /\ ret' = Result(flattenKindConfigExtraMounts(args.in))
    /\ UNCHANGED <<args, controllerVars>>

\* utils.go:58-67
CallGetString ==
    /\ args.fn = "getString"
    /\ ~ret.returned
    /\ ret' = Result(getString(args.in.m, args.in.key))
    /\ UNCHANGED <<args, controllerVars>>

\* utils.go:70-79
CallGetInt ==
    /\ args.fn = "getInt"
    /\ ~ret.returned
    /\ ret' = Result(getInt(args.in.m, args.in.key))
    /\ UNCHANGED <<args, controllerVars>>

\* utils.go:82-91
CallGetBool ==
    /\ args.fn = "getBool"
    /\ ~ret.returned
    /\ ret' = Result(getBool(args.in.m, args.in.key))
    /\ UNCHANGED <<args, controllerVars>>

\* utils.go:204-233
CallAttrValueToAny ==
    /\ args.fn = "attrValueToAny"
    /\ ~ret.returned
    /\ ret' = Result(attrValueToAny(args.in))
    /\ UNCHANGED <<args, controllerVars>>

NextPure ==
    \/ CallParseKindConfigFromFramework
    \/ CallFlattenKindConfig
    \/ CallFlattenKindConfigNetworking
    \/ CallFlattenKindConfigExtraPortMappings
    \/ CallFlattenKindConfigNodes
    \/ CallFlattenKindConfigExtraMounts
    \/ CallGetString
    \/ CallGetInt
    \/ CallGetBool
    \/ CallAttrValueToAny

SpecPure == InitPure /\ [][NextPure]_vars

(***************************************************************************)
(* Properties of the decoder and the normalizer                            *)
(***************************************************************************)
\* port lies in [-2147483648, 2147483647]
InInt32(port) == ~IntLess(port, MinInt32) /\ ~IntLess(MaxInt32, port)

\* the call fn has returned
HasReturned(fn) == args.fn = fn /\ ret.returned

\* the kind_config block of a decoded list, when the list holds one
HasBlock(list) == list.state = "known" /\ Len(list.v) > 0
Block(list) == list.v[1].v

\* the host_port of the block's port mapping
HostPortOf(block) == block.node.v[1].v.extra_port_mappings.v[1].v.host_port.v

\* C18: when parseKindConfigFromFramework normalizes a kind_config block
\* whose networking attribute is a set object, the Networking of the
\* Cluster it returns carries the block's field values.
C18_NetworkingPreserved ==
    (/\ HasReturned("parseKindConfigFromFramework")
     /\ HasBlock(args.in)
     /\ Block(args.in).networking.state = "known"
     /\ InInt32(HostPortOf(Block(args.in)))
     /\ InInt32(Block(args.in).networking.v.api_server_port.v))
    => LET networking == Block(args.in).networking.v
           out == ret.out
       IN /\ ~out.isNil
          /\ out.obj.Networking.APIServerAddress = networking.api_server_address.v
          /\ out.obj.Networking.APIServerPort = networking.api_server_port.v
          /\ out.obj.Networking.DisableDefaultCNI = networking.disable_default_cni.v
          /\ out.obj.Networking.IPFamily = networking.ip_family.v
          /\ out.obj.Networking.PodSubnet = networking.pod_subnet.v

\* the error is ErrPortOutOfRange and names field and value
IsPortError(err, field, value) ==
    /\ ~err.isNil
    /\ ErrPortOutOfRange \in err.is
    /\ err.field = field
    /\ err.value = value

\* C19: a port field whose value lies in the int32 range is accepted and
\* stored as that same number; a value outside the range is rejected with
\* an error that is ErrPortOutOfRange.
C19_PortRangeChecked ==
    /\ HasReturned("flattenKindConfigNetworking") =>
          LET port == args.in.api_server_port.v
          IN IF InInt32(port)
             THEN ret.out.err.isNil /\ ret.out.obj.APIServerPort = port
             ELSE IsPortError(ret.out.err, "api_server_port", port)
    /\ HasReturned("flattenKindConfigExtraPortMappings") =>
          LET containerPort == args.in.container_port.v
              hostPort == args.in.host_port.v
          IN /\ InInt32(containerPort) /\ InInt32(hostPort) =>
                   /\ ret.out.err.isNil
                   /\ ret.out.obj.ContainerPort = containerPort
                   /\ ret.out.obj.HostPort = hostPort
             /\ ~InInt32(containerPort) =>
                   IsPortError(ret.out.err, "container_port", containerPort)
             /\ InInt32(containerPort) /\ ~InInt32(hostPort) =>
                   /\ IsPortError(ret.out.err, "host_port", hostPort)
                   /\ ret.out.obj.ContainerPort = containerPort

\* a port mapping whose container_port, the lowest int32, was stored as it
\* is and whose host_port, one above the highest int32, was rejected
C19_Witness ==
    /\ HasReturned("flattenKindConfigExtraPortMappings")
    /\ args.in.container_port.v = MinInt32
    /\ args.in.host_port.v = GoInt(1, 0)
    /\ ret.out.obj.ContainerPort = MinInt32
    /\ ErrPortOutOfRange \in ret.out.err.is

\* C20: when a port of the configuration is out of range, flattenKindConfig
\* and parseKindConfigFromFramework return no Cluster and an error that is
\* ErrPortOutOfRange and names the offending field and value.
C20_PortErrorPropagates ==
    /\ (/\ HasReturned("flattenKindConfig")
        /\ "networking" \in DOMAIN args.in
        /\ ~InInt32(args.in.networking.v[1].v.api_server_port.v)) =>
          /\ ret.out.isNil
          /\ IsPortError(ret.out.err, "api_server_port",
                         args.in.networking.v[1].v.api_server_port.v)
    /\ (HasReturned("parseKindConfigFromFramework") /\ HasBlock(args.in)) =>
          LET block == Block(args.in)
          IN /\ ~InInt32(HostPortOf(block)) =>
                   /\ ret.out.isNil
                   /\ IsPortError(ret.out.err, "host_port", HostPortOf(block))
             /\ (/\ InInt32(HostPortOf(block))
                 /\ block.networking.state = "known"
                 /\ ~InInt32(block.networking.v.api_server_port.v)) =>
                   /\ ret.out.isNil
                   /\ IsPortError(ret.out.err, "api_server_port",
                                  block.networking.v.api_server_port.v)

(***************************************************************************)
(* runtime_config and feature_gates                                        *)
(***************************************************************************)
\* flattenKindConfig has returned for a kind_config map that holds key
Flattened(key) == HasReturned("flattenKindConfig") /\ key \in DOMAIN args.in

\* key with every underscore replaced by a forward slash
Slashed(key) == [i \in 1..Len(key) |-> IF key[i] = "_" THEN "/" ELSE key[i]]

\* the runtime_config of the call and the RuntimeConfig it returned
GivenRuntimeConfig == args.in.runtime_config.v
StoredRuntimeConfig == ret.out.obj.RuntimeConfig.m

\* C21: every runtime_config entry is stored under its key with every
\* underscore replaced by a slash and with its value unchanged, and no
\* stored key contains an underscore.
C21_RuntimeKeysRewritten ==
    Flattened("runtime_config") =>
       /\ \A key \in DOMAIN GivenRuntimeConfig :
             /\ Slashed(key) \in DOMAIN StoredRuntimeConfig
             /\ StoredRuntimeConfig[Slashed(key)] = GivenRuntimeConfig[key].v
       /\ \A key \in DOMAIN StoredRuntimeConfig :
             \A i \in 1..Len(key) : key[i] # "_"

\* no key of the map holds a slash: its keys are separated by underscores
UnderscoreSeparated(m) ==
    \A key \in DOMAIN m : \A i \in 1..Len(key) : key[i] # "/"

\* C22: for a runtime_config map whose keys are separated by underscores
\* only, distinct keys are stored under distinct keys: the stored map has
\* as many entries as the given one and each given value is found under
\* its rewritten key.
C22_DistinctKeysStayDistinct ==
    (Flattened("runtime_config") /\ UnderscoreSeparated(GivenRuntimeConfig)) =>
       /\ Cardinality(DOMAIN StoredRuntimeConfig) =
             Cardinality(DOMAIN GivenRuntimeConfig)
       /\ \A key \in DOMAIN GivenRuntimeConfig :
             /\ Slashed(key) \in DOMAIN StoredRuntimeConfig
             /\ StoredRuntimeConfig[Slashed(key)] = GivenRuntimeConfig[key].v
       /\ \A k1, k2 \in DOMAIN GivenRuntimeConfig :
             k1 # k2 => Slashed(k1) # Slashed(k2)

\* two keys that differ after an underscore were stored under two keys
C22_Witness ==
    /\ Flattened("runtime_config")
    /\ DOMAIN GivenRuntimeConfig = {<<"a", "_", "b">>, <<"a", "_", "c">>}
    /\ GivenRuntimeConfig[<<"a", "_", "b">>] # GivenRuntimeConfig[<<"a", "_", "c">>]
    /\ DOMAIN StoredRuntimeConfig = {<<"a", "/", "b">>, <<"a", "/", "c">>}

\* the strings that equal "true" ignoring letter case, among GateValues
TrueSpellings == {"true", "True", "TRUE", "tRuE"}

\* C23: every string-valued feature_gates entry is stored under the same
\* key as a boolean that is true exactly when the string is a spelling of
\* "true", and no error is returned.
C23_FeatureGatesFolded ==
    Flattened("feature_gates") =>
       LET given == args.in.feature_gates.v
           stored == ret.out.obj.FeatureGates.m
       IN /\ ret.out.err.isNil
          /\ ~ret.out.isNil
          /\ DOMAIN stored = {key \in DOMAIN given : given[key].k = "string"}
          /\ \A key \in DOMAIN stored :
                stored[key] = (given[key].v \in TrueSpellings)

\* one gate spelled in mixed case became true, another spelled "yes" false
C23_Witness ==
    /\ Flattened("feature_gates")
    /\ DOMAIN args.in.feature_gates.v = {"FeatureA", "FeatureB"}
    /\ args.in.feature_gates.v.FeatureA = GoString("tRuE")
    /\ args.in.feature_gates.v.FeatureB = GoString("yes")
    /\ ret.out.obj.FeatureGates.m.FeatureA = TRUE
    /\ ret.out.obj.FeatureGates.m.FeatureB = FALSE

(***************************************************************************)
(* Enum fields                                                             *)
(***************************************************************************)
\* the typed value of an enum field: the string itself when the allow-list
\* holds it, spelled exactly, and the zero value otherwise
Typed(value, allowList) == IF value \in allowList THEN value ELSE ""

\* C24: each enum field maps every member of its allow-list, matched
\* exactly, to the typed value of the same spelling and every other string
\* to the zero value, and returns no error.
C24_EnumsMapped ==
    /\ HasReturned("flattenKindConfigNodes") =>
          /\ ret.out.err.isNil
          /\ ret.out.obj.Role = Typed(args.in.role.v, {"control-plane", "worker"})
    /\ HasReturned("flattenKindConfigExtraMounts") =>
          ret.out.Propagation =
             Typed(args.in.propagation.v, {"None", "HostToContainer", "Bidirectional"})
    /\ (/\ HasReturned("flattenKindConfigExtraPortMappings")
        /\ InInt32(args.in.container_port.v)
        /\ InInt32(args.in.host_port.v)) =>
          /\ ret.out.err.isNil
          /\ ret.out.obj.Protocol = Typed(args.in.protocol.v, {"TCP", "UDP", "SCTP"})
    /\ (/\ HasReturned("flattenKindConfigNetworking")
        /\ InInt32(args.in.api_server_port.v)) =>
          /\ ret.out.err.isNil
          /\ ret.out.obj.IPFamily =
                Typed(args.in.ip_family.v, {"ipv4", "ipv6", "dual"})
          /\ ret.out.obj.KubeProxyMode =
                Typed(args.in.kube_proxy_mode.v, {"iptables", "ipvs", "none"})

\* a networking map whose ip_family is of the list and whose
\* kube_proxy_mode is a wrong-case spelling: the first kept, the second zero
C24_Witness ==
    /\ HasReturned("flattenKindConfigNetworking")
    /\ args.in.ip_family.v = "dual"
    /\ args.in.kube_proxy_mode.v = "IPVS"
    /\ ret.out.err.isNil
    /\ ret.out.obj.IPFamily = "dual"
    /\ ret.out.obj.KubeProxyMode = ""

(***************************************************************************)
(* The extraction helpers                                                  *)
(***************************************************************************)
\* the map of the call holds under its key a value of dynamic type k
Holds(k) == args.in.key \in DOMAIN args.in.m /\ args.in.m[args.in.key].k = k

\* C25: getString, getInt and getBool return the value found under the key
\* unchanged when it has the matching dynamic type, and the zero value
\* ("", 0, false) when the key is missing or its value is nil or of another
\* type.
C25_HelpersDefault ==
    /\ HasReturned("getString") =>
          ret.out = IF Holds("string") THEN args.in.m[args.in.key].v ELSE ""
    /\ HasReturned("getInt") =>
          ret.out = IF Holds("int") THEN args.in.m[args.in.key].v ELSE GoInt(0, 0)
    /\ HasReturned("getBool") =>
          ret.out = IF Holds("bool") THEN args.in.m[args.in.key].v ELSE FALSE

\* getInt found a string under its key and returned zero
C25_Witness ==
    /\ HasReturned("getInt")
    /\ args.in.m = [key |-> GoString("value")]
    /\ ret.out = GoInt(0, 0)

(***************************************************************************)
(* Node blocks                                                             *)
(***************************************************************************)
\* C26: the Cluster has one node for each node block, in the order of the
\* blocks: node i is the normalization of block i.
C26_NodesInOrder ==
    /\ Flattened("node") =>
          LET given == args.in.node.v
              nodes == ret.out.obj.Nodes
          IN /\ ~ret.out.isNil
             /\ Len(nodes) = Len(given)
             /\ \A i \in 1..Len(given) :
                   /\ nodes[i].Role =
                         Typed(given[i].v.role.v, {"control-plane", "worker"})
                   /\ nodes[i].Image = given[i].v.image.v
    /\ (/\ HasReturned("parseKindConfigFromFramework")
        /\ HasBlock(args.in)
        /\ ret.out.err.isNil) =>
          LET given == Block(args.in).node.v
              nodes == ret.out.obj.Nodes
          IN /\ Len(nodes) = Len(given)
             /\ \A i \in 1..Len(given) :
                   nodes[i].ExtraPortMappings[1].HostPort =
                      given[i].v.extra_port_mappings.v[1].v.host_port.v

\* the blocks control-plane, worker gave the nodes control-plane, worker
C26_Witness ==
    /\ Flattened("node")
    /\ Len(args.in.node.v) = 2
    /\ args.in.node.v[1].v.role.v = "control-plane"
    /\ args.in.node.v[2].v.role.v = "worker"
    /\ Len(ret.out.obj.Nodes) = 2
    /\ ret.out.obj.Nodes[1].Role = "control-plane"
    /\ ret.out.obj.Nodes[2].Role = "worker"

(***************************************************************************)
(* The attribute tree decoder                                              *)
(***************************************************************************)
\* the types attrValueToAny has a case for
DecodedTypes ==
    {"String", "Bool", "Int64", "Float64", "Number", "List", "Set", "Map", "Object"}

RECURSIVE Decoded(_, _)
\* out is the structure-preserving conversion of value
Decoded(value, out) ==
    IF value.state # "known" \/ value.t \notin DecodedTypes
    THEN out.k = "nil"
    ELSE CASE value.t \in {"List", "Set"} ->
                /\ out.k = "slice"
                /\ Len(out.v) = Len(value.v)
                /\ \A i \in 1..Len(value.v) : Decoded(value.v[i], out.v[i])
           [] value.t \in {"Map", "Object"} ->
                /\ out.k = "map"
                /\ DOMAIN out.v = DOMAIN value.v
                /\ \A key \in DOMAIN value.v : Decoded(value.v[key], out.v[key])
           [] value.t = "String" -> out = GoString(value.v)
           [] value.t = "Bool" -> out = GoBool(value.v)
           [] value.t = "Int64" -> out = GoIntValue(value.v)
           [] value.t = "Float64" -> out = GoFloat64(value.v)
           [] value.t = "Number" -> out.k = "float64"

\* C27: attrValueToAny converts a null, unknown or unrecognized node at any
\* depth to nil, a list or set to a sequence of as many items, item by
\* item, and a map or object to a mapping with the same keys, value by
\* value.
C27_DecoderPreservesStructure ==
    HasReturned("attrValueToAny") => Decoded(args.in, ret.out)

\* a list of a string and a null inside a list became a slice of a string
\* and nil inside a slice
C27_Witness ==
    /\ HasReturned("attrValueToAny")
    /\ args.in = AttrList(<<AttrList(<<AttrString("a"), AttrNull("String")>>)>>)
    /\ ret.out = GoSlice(<<GoSlice(<<GoString("a"), GoNil>>)>>)

(***************************************************************************)
(* Termination of Delete                                                   *)
(*                                                                         *)
(* SpecDelete starts where the resource has been created and its record    *)
(* saved, and runs Delete invocations one after another.  Delete's own     *)
(* steps are taken when they can be and the timer of context.WithTimeout   *)
(* fires; nothing is assumed of the goroutine inside provider.Delete.      *)
(***************************************************************************)
\* part_003:333  make(chan error, 1)
errChanCapacity == 1

\* the kubeconfig a Delete finds: with or without the cluster's entries
InitDelete ==
    /\ \E custom \in BOOLEAN :
          /\ tfconfig = [r \in Resources |->
                [node_image |-> "",
                 kubeconfig_path |-> IF custom THEN CustomPath ELSE "",
                 wait_for_ready |-> FALSE, kind_config |-> NullList]]
          /\ tfstate = [r \in Resources |->
                SavedRecord(r, IF custom THEN CustomPath ELSE ExportPath(r))]
    /\ \E d \in {TypicalDoc("a"), [TypicalDoc("a") EXCEPT !.Contexts = {OtherContext}]} :
          files = [q \in Paths |-> d]
    /\ engine = Resources
    /\ op = [r \in Resources |-> "none"]
    /\ pc = [r \in Resources |-> "idle"]
    /\ loc = [r \in Resources |-> InitLoc]
    /\ diags = [r \in Resources |-> <<>>]
    /\ warns = [r \in Resources |-> <<>>]
    /\ calls = [r \in Resources |-> <<>>]
    /\ gpc = [r \in Resources |-> "none"]
    /\ errChan = [r \in Resources |-> <<>>]
    /\ done = [r \in Resources |-> "open"]
    /\ args = NoCall
    /\ ret = Pending

NextDelete ==
    \E r \in Resources :
        \/ DeleteBegin(r)
        \/ GoEngineDelete(r)
        \/ GoEngineHang(r)
        \/ GoSend(r)
        \/ TimerFires(r)
        \/ ParentCancelled(r)
        \/ DeleteSelect(r)
        \/ DeleteResult(r)
        \/ RemoveContextLoad(r)
        \/ RemoveContextWrite(r)
        \/ HostAck(r)

\* part_003:324-393  Delete runs on, and the timer fires
FairDelete ==
    \A r \in Resources :
        /\ WF_vars(TimerFires(r))
        /\ WF_vars(DeleteSelect(r))
        /\ WF_vars(DeleteResult(r))
        /\ WF_vars(RemoveContextLoad(r))
        /\ WF_vars(RemoveContextWrite(r))

SpecDelete == InitDelete /\ [][NextDelete]_vars /\ FairDelete

\* Delete is past the start of its goroutine and has not returned
Deleting(r) ==
    op[r] = "Delete" /\ pc[r] \in {"select", "parked", "selected", "load", "write"}

\* the goroutine's send finds room in the channel, and the channel never
\* holds more than its capacity
HandOffFree(r) ==
    /\ Len(errChan[r]) <= errChanCapacity
    /\ gpc[r] \in {"send_nil", "send_err"} => Len(errChan[r]) < errChanCapacity

\* what Delete's select can leave in err
DeleteOutcome(r) ==
    (op[r] = "Delete" /\ pc[r] \in {"selected", "load", "write"}) =>
       loc[r].err \in {Nil, "engine delete failed", errDeleteTimeout}

\* C28: every Delete invocation eventually returns, also when the engine's
\* deletion call never returns; it ends with the deletion's result or the
\* timeout error, and the hand-off of the result blocks neither Delete nor
\* the goroutine.
C28_DeleteReturns ==
    /\ [](\A r \in Resources : HandOffFree(r) /\ DeleteOutcome(r))
    /\ \A r \in Resources :
          Deleting(r) ~> (op[r] = "Delete" /\ pc[r] = "returned")

\* Delete returned with the timeout error while the engine's call hangs
C28_Witness ==
    \E r \in Resources :
       /\ op[r] = "Delete"
       /\ pc[r] = "returned"
       /\ gpc[r] = "hung"
       /\ loc[r].err = errDeleteTimeout
       /\ done[r] = "deadline"

(***************************************************************************)
(* Create and the engine                                                   *)
(***************************************************************************)
\* C29: after a Create invocation that called the engine has returned, the
\* engine holds a cluster of the invocation's name only if the invocation
\* saved a state record.
C29_EngineMatchesState ==
    \A r \in Resources :
       (/\ op[r] = "Create"
        /\ pc[r] = "returned"
        /\ \E i \in 1..Len(calls[r]) : calls[r][i].call = "Create"
        /\ loc[r].name \in engine)
          => tfstate[r] # NoRecord

(***************************************************************************)
(* The frame of the credential cleanup                                     *)
(***************************************************************************)
\* documents a and b hold the same entries under every key but key
SameButFor(a, b, key) ==
    /\ a.Contexts \ {key} = b.Contexts \ {key}
    /\ a.AuthInfos \ {key} = b.AuthInfos \ {key}
    /\ a.Clusters \ {key} = b.Clusters \ {key}

\* the step is r's WriteToFile of its cleanup
WritesFile(r) ==
    /\ op[r] = "Delete"
    /\ pc[r] = "write"
    /\ calls'[r] # calls[r]

====
